---------------------------- MODULE Spec2Model ----------------------------
(***************************************************************************)
(* CottDAW: the transport store, the project store, the audio engine's     *)
(* scheduler and the React hook that wires them to the Tone.js transport.  *)
(*                                                                         *)
(* Units.  Beats are integers (whole beats).  Seconds are integers in      *)
(* milliseconds, so beatsToSeconds(1, 120) = 500.  Volumes and velocities  *)
(* are integers in percent (0.5 is 50).                                    *)
(***************************************************************************)
EXTENDS Integers, Sequences, FiniteSets, TLC

(***************************************************************************)
(* Bounds of the model.                                                    *)
(***************************************************************************)
MaxBeat == 2

\* Arguments a caller may pass where the code takes a beat: one negative
\* value, zero, and the beats up to MaxBeat.
BeatArgs == -1 .. MaxBeat

\* Arguments for setMetronomeVolume, in percent: below and above [0,1].
VolumeArgs == {-50, 150}

\* Tempi for which the conversion to milliseconds is exact.
BpmValues == {60, 120}

(***************************************************************************)
(* Program constants.                                                      *)
(***************************************************************************)
DefaultLoopEnd == 16
DefaultBpm == 120
DefaultMetronomeVolume == 50
DefaultProjectName == "Untitled Project"
DefaultTimeSignature == <<4, 4>>

\* selectedTrackId: null
NoTrack == "null"

Max(a, b) == IF a >= b THEN a ELSE b
Min(a, b) == IF a <= b THEN a ELSE b

\* timeHelpers.ts: (beats / bpm) * 60, here in milliseconds.
beatsToSeconds(beats, tempo) == (beats * 60000) \div tempo

\* The Tone.js transport keeps times in ticks: a time given in seconds is
\* converted with the transport's tempo at the moment it is given.  Here the
\* tick position is counted in beats.
ToneBeats(ms, tempo) == (ms * tempo) \div 60000

Range(f) == {f[i] : i \in DOMAIN f}

VARIABLES
    \* transport store (zustand)
    isPlaying, isPaused, currentBeat, loop, metronomeEnabled, metronomeVolume,
    \* module variable of the transport store
    seekCallback,
    \* project store: tempo, tracks, and the ids handed out so far (uuidv4)
    bpm, tracks, nextUid,
    \* project store: name, time signature, selected track; colorPalette.ts:
    \* colorIndex
    projectName, timeSignature, selectedTrackId, colorIndex,
    \* history store: the two stacks of note snapshots
    past, future,
    \* UI store: the selected notes and the track they belong to
    selection,
    \* engine.ts: isInitialized, scheduledEvents; synth.ts: the ids in trackSynths
    isInitialized, scheduledEvents, trackSynths,
    \* synth.ts: the voices that were created and not disposed and are no
    \* longer in trackSynths, each by its track id; PianoRoll: the preview
    \* notes waiting for Tone.start(), each by the id of its track
    orphanVoices, pendingPreviews,
    \* Tone.js transport: its registered events, its event id counter, its
    \* state, position (beats), tempo and loop settings (beats)
    timeline, nextEventId, tState, tPosition, tBpm, tLoop,
    \* Tone.js Draw: the number of queued draw callbacks
    drawQueue,
    \* useAudioEngine: isInitializedRef, a pending initAudio, a pending React
    \* render, and the dependency values the effects last ran with
    isInitializedRef, initPending, renderPending, effPlaying, effPaused,
    effBpm, tracksChanged, prevTracksRef,
    \* observation: the call or callback that ran last, its argument, and the
    \* arguments the seek callback was invoked with during that call, and
    \* what the call returned or showed to the user
    lastOp, actuals, seekCalls, returned

transportVars == <<isPlaying, isPaused, currentBeat, loop, metronomeEnabled,
                   metronomeVolume>>
metaVars == <<projectName, timeSignature>>
selectionVars == <<selectedTrackId, colorIndex>>
historyVars == <<past, future>>
uiVars == <<selection>>
voiceVars == <<orphanVoices, pendingPreviews>>
projectVars == <<bpm, tracks, nextUid, metaVars, selectionVars, historyVars>>
engineVars == <<isInitialized, scheduledEvents, trackSynths>>
toneVars == <<timeline, nextEventId, tState, tBpm, tLoop, drawQueue>>
hookVars == <<isInitializedRef, initPending, renderPending, effPlaying,
              effPaused, effBpm, tracksChanged, prevTracksRef>>
logVars == <<lastOp, actuals, seekCalls, returned>>
vars == <<transportVars, seekCallback, projectVars, uiVars, engineVars, voiceVars,
          toneVars, tPosition, hookVars, logVars>>

\* What a transport store action leaves alone besides the store itself.
outsideTransport == <<seekCallback, projectVars, engineVars, toneVars, hookVars>>

\* The logged argument of a call that takes none.
NoArg == <<>>

\* One call is logged: its name, its argument, the callback calls it made.
LoggedCall(op, arg, calls) ==
    /\ lastOp' = op
    /\ actuals' = arg
    /\ seekCalls' = calls
    /\ returned' = NoArg
    /\ UNCHANGED voiceVars

\* A call of the transport, project or history store, of the engine or of
\* the audio hook: none of them reads or writes the UI store.
Logged(op, arg, calls) ==
    /\ LoggedCall(op, arg, calls)
    /\ UNCHANGED uiVars

\* ... of a call that returns a value or shows the user something.
LoggedReturning(op, arg, result) ==
    /\ lastOp' = op
    /\ actuals' = arg
    /\ seekCalls' = <<>>
    /\ returned' = result
    /\ UNCHANGED <<uiVars, voiceVars>>

\* A call of synth.ts or of a preview note is logged.
LoggedVoice(op, arg) ==
    /\ lastOp' = op
    /\ actuals' = arg
    /\ seekCalls' = <<>>
    /\ returned' = NoArg
    /\ UNCHANGED uiVars

(***************************************************************************)
(* Transport store: transportStore.ts                                      *)
(***************************************************************************)
TransportInit ==
    /\ isPlaying = FALSE
    /\ isPaused = FALSE
    /\ currentBeat = 0
    /\ loop = [start |-> 0, end |-> DefaultLoopEnd, enabled |-> FALSE]
    /\ metronomeEnabled = FALSE
    /\ metronomeVolume = DefaultMetronomeVolume

\* set({ isPlaying: true, isPaused: false })
PlaySet ==
    /\ isPlaying' = TRUE
    /\ isPaused' = FALSE
    /\ UNCHANGED <<currentBeat, loop, metronomeEnabled, metronomeVolume>>

\* A pause that forgets to clear isPlaying.
PauseSetKeepsPlaying ==
    /\ isPaused' = TRUE
    /\ UNCHANGED <<isPlaying, currentBeat, loop, metronomeEnabled, metronomeVolume>>

\* set({ isPlaying: false, isPaused: true })
PauseSet ==
    /\ isPlaying' = FALSE
    /\ isPaused' = TRUE
    /\ UNCHANGED <<currentBeat, loop, metronomeEnabled, metronomeVolume>>

\* A stop that forgets to rewind.
StopSetKeepsBeat ==
    /\ isPlaying' = FALSE
    /\ isPaused' = FALSE
    /\ UNCHANGED <<currentBeat, loop, metronomeEnabled, metronomeVolume>>

\* set({ isPlaying: false, isPaused: false, currentBeat: 0 })
StopSet ==
    /\ isPlaying' = FALSE
    /\ isPaused' = FALSE
    /\ currentBeat' = 0
    /\ UNCHANGED <<loop, metronomeEnabled, metronomeVolume>>

Play ==
    /\ PlaySet
    /\ Logged("play", NoArg, <<>>)
    /\ UNCHANGED <<outsideTransport, tPosition>>

Pause ==
    /\ PauseSet
    /\ Logged("pause", NoArg, <<>>)
    /\ UNCHANGED <<outsideTransport, tPosition>>

Stop ==
    /\ StopSet
    /\ Logged("stop", NoArg, <<>>)
    /\ UNCHANGED <<outsideTransport, tPosition>>

TogglePlay ==
    /\ IF isPlaying THEN PauseSet ELSE PlaySet
    /\ Logged("togglePlay", NoArg, <<>>)
    /\ UNCHANGED <<outsideTransport, tPosition>>

\* A setCurrentBeat that also pulls a beat before the loop up to its start.
WrappedBeatIntoLoop(beat) ==
    IF loop.enabled /\ (beat >= loop.end \/ beat < loop.start) THEN loop.start ELSE beat

\* The value setCurrentBeat stores.
WrappedBeat(beat) ==
    IF loop.enabled /\ beat >= loop.end THEN loop.start ELSE beat

SetCurrentBeatSet(beat) ==
    /\ currentBeat' = WrappedBeat(beat)
    /\ UNCHANGED <<isPlaying, isPaused, loop, metronomeEnabled, metronomeVolume>>

SetCurrentBeat(beat) ==
    /\ SetCurrentBeatSet(beat)
    /\ Logged("setCurrentBeat", beat, <<>>)
    /\ UNCHANGED <<outsideTransport, tPosition>>

\* A seek that forgets to clamp.
ClampBeatIdentity(beat) == beat

\* Math.max(0, beat)
ClampBeat(beat) == Max(0, beat)

\* engine.seekTo(beat, bpm): Tone.getTransport().position = beatsToSeconds(beat, bpm)
seekTo(beat, tempo) == tPosition' = ToneBeats(beatsToSeconds(beat, tempo), tBpm)

\* seek: set currentBeat, then call the callback if one is registered.  The
\* callback registered by useAudioEngine is engine.seekTo with the project's bpm.
Seek(beat) ==
    /\ currentBeat' = ClampBeat(beat)
    /\ UNCHANGED <<isPlaying, isPaused, loop, metronomeEnabled, metronomeVolume>>
    /\ IF seekCallback
          THEN /\ seekTo(ClampBeat(beat), bpm)
               /\ Logged("seek", beat, <<ClampBeat(beat)>>)
          ELSE /\ UNCHANGED tPosition
               /\ Logged("seek", beat, <<>>)
    /\ UNCHANGED outsideTransport

SetLoopEnabled(enabled) ==
    /\ loop' = [loop EXCEPT !.enabled = enabled]
    /\ UNCHANGED <<isPlaying, isPaused, currentBeat, metronomeEnabled, metronomeVolume>>
    /\ Logged("setLoopEnabled", NoArg, <<>>)
    /\ UNCHANGED <<outsideTransport, tPosition>>

\* A setLoopRegion that stores its arguments as given.
LoopRegionAsGiven(start, end) == [start |-> start, end |-> end]

\* The region setLoopRegion stores.
LoopRegionOf(start, end) == [start |-> Min(start, end), end |-> Max(start, end)]

SetLoopRegion(start, end) ==
    /\ loop' = [loop EXCEPT !.start = LoopRegionOf(start, end).start,
                            !.end = LoopRegionOf(start, end).end]
    /\ UNCHANGED <<isPlaying, isPaused, currentBeat, metronomeEnabled, metronomeVolume>>
    /\ Logged("setLoopRegion", <<start, end>>, <<>>)
    /\ UNCHANGED <<outsideTransport, tPosition>>

ToggleLoop ==
    /\ loop' = [loop EXCEPT !.enabled = ~loop.enabled]
    /\ UNCHANGED <<isPlaying, isPaused, currentBeat, metronomeEnabled, metronomeVolume>>
    /\ Logged("toggleLoop", NoArg, <<>>)
    /\ UNCHANGED <<outsideTransport, tPosition>>

ToggleMetronome ==
    /\ metronomeEnabled' = ~metronomeEnabled
    /\ UNCHANGED <<isPlaying, isPaused, currentBeat, loop, metronomeVolume>>
    /\ Logged("toggleMetronome", NoArg, <<>>)
    /\ UNCHANGED <<outsideTransport, tPosition>>

SetMetronomeVolume(volume) ==
    /\ metronomeVolume' = Max(0, Min(100, volume))
    /\ UNCHANGED <<isPlaying, isPaused, currentBeat, loop, metronomeEnabled>>
    /\ Logged("setMetronomeVolume", NoArg, <<>>)
    /\ UNCHANGED <<outsideTransport, tPosition>>

\* setSeekCallback(callback): useAudioEngine registers engine.seekTo on mount
\* and null on unmount.
SetSeekCallback(registered) ==
    /\ seekCallback' = registered
    /\ Logged("setSeekCallback", NoArg, <<>>)
    /\ UNCHANGED <<transportVars, projectVars, engineVars, toneVars, hookVars, tPosition>>

(***************************************************************************)
(* The transport store on its own, called with any arguments.              *)
(***************************************************************************)
\* Everything outside the transport store, as the modules leave it when loaded.
RestInit ==
    /\ bpm = DefaultBpm
    /\ tracks = <<>>
    /\ nextUid = 1
    /\ projectName = DefaultProjectName
    /\ timeSignature = DefaultTimeSignature
    /\ selectedTrackId = NoTrack
    /\ colorIndex = 0
    /\ past = <<>>
    /\ future = <<>>
    /\ isInitialized = FALSE
    /\ scheduledEvents = <<>>
    /\ trackSynths = {}
    /\ timeline = {}
    /\ nextEventId = 1
    /\ tState = "stopped"
    /\ tPosition = 0
    /\ tBpm = DefaultBpm
    /\ tLoop = [enabled |-> FALSE, start |-> 0, end |-> 0]
    /\ drawQueue = 0
    /\ isInitializedRef = FALSE
    /\ initPending = FALSE
    /\ renderPending = FALSE
    /\ effPlaying = FALSE
    /\ effPaused = FALSE
    /\ effBpm = DefaultBpm
    /\ tracksChanged = FALSE
    /\ prevTracksRef = {}
    /\ lastOp = "init"
    /\ actuals = NoArg
    /\ seekCalls = <<>>
    /\ returned = NoArg
    /\ selection = [noteIds |-> <<>>, trackId |-> "null"]
    /\ orphanVoices = <<>>
    /\ pendingPreviews = {}

InitTransport ==
    /\ TransportInit
    /\ seekCallback = FALSE
    /\ RestInit

NextTransport ==
    \/ Play
    \/ Pause
    \/ Stop
    \/ TogglePlay
    \/ \E beat \in BeatArgs : SetCurrentBeat(beat)
    \/ \E beat \in BeatArgs : Seek(beat)
    \/ \E enabled \in BOOLEAN : SetLoopEnabled(enabled)
    \/ \E start \in BeatArgs, end \in BeatArgs : SetLoopRegion(start, end)
    \/ ToggleLoop
    \/ ToggleMetronome
    \/ \E volume \in VolumeArgs : SetMetronomeVolume(volume)
    \/ \E registered \in BOOLEAN : SetSeekCallback(registered)

SpecTransport == InitTransport /\ [][NextTransport]_vars

(***************************************************************************)
(* Claims about the transport store.                                       *)
(***************************************************************************)

\* C6: the transition table.  play() leads to Playing and keeps currentBeat;
\* pause() leads from Playing to Paused and keeps currentBeat; stop() leads
\* from any state to Stopped with currentBeat = 0; togglePlay() does what
\* pause() does when Playing and what play() does otherwise.
C6_TransitionTable ==
    [][ /\ (lastOp' = "play" =>
               isPlaying' /\ ~isPaused' /\ currentBeat' = currentBeat)
        /\ (lastOp' = "pause" /\ isPlaying =>
               ~isPlaying' /\ isPaused' /\ currentBeat' = currentBeat)
        /\ (lastOp' = "stop" =>
               ~isPlaying' /\ ~isPaused' /\ currentBeat' = 0)
        /\ (lastOp' = "togglePlay" /\ isPlaying =>
               ~isPlaying' /\ isPaused' /\ currentBeat' = currentBeat)
        /\ (lastOp' = "togglePlay" /\ ~isPlaying =>
               isPlaying' /\ ~isPaused' /\ currentBeat' = currentBeat)
      ]_vars

\* C6 witness: stop() has just been called and has rewound the playhead
\* while the loop and the seek callback were in use.
C6_Witness ==
    lastOp = "stop" /\ currentBeat = 0 /\ ~isPlaying /\ ~isPaused /\ tPosition > 0

\* C7: isPlaying and isPaused are never both true.
C7_PlayingPausedExclusive == ~(isPlaying /\ isPaused)

\* C7 witness: the store is Paused after a pause() issued while Playing, and
\* a metronome action has followed.
C7_Witness ==
    isPaused /\ ~isPlaying /\ lastOp = "toggleMetronome" /\ metronomeVolume = 100

\* C8: seek(beat) sets currentBeat to max(0, beat), leaves isPlaying, isPaused
\* and the loop unchanged, and calls the registered seek callback exactly once
\* with the clamped value (not at all when none is registered); no other
\* transport action calls the callback.
C8_SeekClampsAndNotifies ==
    [][ /\ (lastOp' = "seek" =>
               /\ currentBeat' = (IF actuals' < 0 THEN 0 ELSE actuals')
               /\ isPlaying' = isPlaying
               /\ isPaused' = isPaused
               /\ loop' = loop
               /\ seekCalls' = (IF seekCallback
                                   THEN <<IF actuals' < 0 THEN 0 ELSE actuals'>>
                                   ELSE <<>>))
        /\ (lastOp' # "seek" => seekCalls' = <<>>)
      ]_vars

\* C8 witness: seek was called with a negative beat while a callback was
\* registered, and the callback got the clamped value.
C8_Witness ==
    lastOp = "seek" /\ actuals < 0 /\ seekCalls = <<0>> /\ currentBeat = 0
        /\ isPlaying

\* C9: currentBeat >= 0 in every reachable state of the transport store.
C9_CurrentBeatNonNegative == currentBeat >= 0

\* C10: loop.start <= loop.end always; setLoopRegion(a, b) stores
\* (min(a,b), max(a,b)) and keeps loop.enabled; setLoopEnabled and toggleLoop
\* keep loop.start and loop.end.
C10_LoopRegionOrdered ==
    /\ loop.start <= loop.end
    /\ [][ /\ loop'.start <= loop'.end
           /\ (lastOp' = "setLoopRegion" =>
                  /\ loop'.start = (IF actuals'[1] <= actuals'[2]
                                       THEN actuals'[1] ELSE actuals'[2])
                  /\ loop'.end = (IF actuals'[1] <= actuals'[2]
                                     THEN actuals'[2] ELSE actuals'[1])
                  /\ loop'.enabled = loop.enabled)
           /\ (lastOp' \in {"setLoopEnabled", "toggleLoop"} =>
                  /\ loop'.start = loop.start
                  /\ loop'.end = loop.end)
         ]_vars

\* C10 witness: setLoopRegion was called with its arguments in inverted
\* order on an enabled loop and stored them in order.
C10_Witness ==
    /\ lastOp = "setLoopRegion"
    /\ actuals[1] > actuals[2]
    /\ loop.start = actuals[2]
    /\ loop.end = actuals[1]
    /\ loop.enabled

(***************************************************************************)
(* Scheduler: engine.ts, on the Tone.js transport                          *)
(*                                                                         *)
(* A track is [id, muted, solo, notes]; a note is [id, pitch, start,       *)
(* duration, velocity].  An event registered on the transport is           *)
(*   [id, kind, time, beat, trackId, noteId, frequency, duration, velocity]*)
(* where time is the time in seconds given to transport.schedule, beat is  *)
(* the tick position the transport keeps for it, and the other fields are  *)
(* what the trigger's closure holds (track.id, note, frequency, duration). *)
(***************************************************************************)
MaxEventId == 6

\* noteHelpers.ts: 440 * 2^((midi - 69) / 12), exact for the pitches a whole
\* number of octaves from A4, which are the pitches the model uses.
midiToFrequency(midi) ==
    IF midi >= 69 THEN 440 * 2 ^ ((midi - 69) \div 12)
                  ELSE 440 \div 2 ^ ((69 - midi) \div 12)

\* tracks.some((t) => t.solo)
HasSolo(trs) == \E i \in DOMAIN trs : trs[i].solo

\* A solo rule that lets a solo'd track play although it is muted.
IsActiveSoloBeatsMute(track, trs) ==
    IF HasSolo(trs) THEN track.solo ELSE ~track.muted

\* The two early returns of the forEach body: the track is scheduled iff it
\* is not muted and, when some track is solo'd, it is solo'd itself.
IsActive(track, trs) ==
    /\ ~track.muted
    /\ ~(HasSolo(trs) /\ ~track.solo)

ActiveTrackIds(trs) == {trs[i].id : i \in {j \in DOMAIN trs : IsActive(trs[j], trs)}}

\* A trigger that passes the note's values on without converting them.
NoteEventUnconverted(track, note, tempo) ==
    [id |-> 0, kind |-> "note", time |-> note.start,
     beat |-> note.start, trackId |-> track.id, noteId |-> note.id,
     frequency |-> midiToFrequency(note.pitch),
     duration |-> note.duration, velocity |-> note.velocity]

\* transport.schedule(callback, startTime) for one note: the callback
\* triggers the synth registered for track.id with frequency, duration and
\* note.velocity.  The event id is filled in at registration.
NoteEvent(track, note, tempo) ==
    [id |-> 0, kind |-> "note", time |-> beatsToSeconds(note.start, tempo),
     beat |-> ToneBeats(beatsToSeconds(note.start, tempo), tempo),
     trackId |-> track.id, noteId |-> note.id,
     frequency |-> midiToFrequency(note.pitch),
     duration |-> beatsToSeconds(note.duration, tempo),
     velocity |-> note.velocity]

\* track.notes.forEach: the events of one track, in the order of its notes.
TrackTriggers(track, tempo) ==
    [j \in DOMAIN track.notes |-> NoteEvent(track, track.notes[j], tempo)]

\* tracks.forEach: the events of the active tracks, track by track.
RECURSIVE NoteTriggers(_, _, _)
NoteTriggers(trs, i, tempo) ==
    IF i > Len(trs) THEN <<>>
    ELSE (IF IsActive(trs[i], trs) THEN TrackTriggers(trs[i], tempo) ELSE <<>>)
         \o NoteTriggers(trs, i + 1, tempo)

\* transport.scheduleRepeat(callback, '16n'): the position-update tick.
TickEvent ==
    [id |-> 0, kind |-> "tick", time |-> 0, beat |-> 0, trackId |-> "",
     noteId |-> 0, frequency |-> 0, duration |-> 0, velocity |-> 0]

\* A clear that empties the id list but leaves the events on the transport.
ClearedTimelineKeepsEvents(tl, ids) == tl

\* scheduledEvents.forEach((id) => transport.clear(id))
ClearedTimeline(tl, ids) == {e \in tl : e.id \notin ids}

\* The loop settings scheduleNotes leaves on the transport.
LoopSetup(lp, tempo) ==
    IF lp.enabled
       THEN [enabled |-> TRUE,
             start |-> ToneBeats(beatsToSeconds(lp.start, tempo), tempo),
             end |-> ToneBeats(beatsToSeconds(lp.end, tempo), tempo)]
       ELSE [tLoop EXCEPT !.enabled = FALSE]

\* clearScheduledNotes()
ClearScheduledNotes ==
    /\ timeline' = ClearedTimeline(timeline, Range(scheduledEvents))
    /\ scheduledEvents' = <<>>

\* scheduleNotes(tracks, loop, bpm, onBeatUpdate), run with the synth
\* registry `synths`: clear, set the tempo, create or update the synth of
\* every active track, register one event per note of every active track,
\* set up the loop, register the tick.
ScheduleNotesFrom(synths, trs, lp, tempo) ==
    LET base == ClearedTimeline(timeline, Range(scheduledEvents))
        trig == NoteTriggers(trs, 1, tempo)
        n == Len(trig)
        noteEvents == {[trig[i] EXCEPT !.id = nextEventId + i - 1] : i \in 1 .. n}
        tick == [TickEvent EXCEPT !.id = nextEventId + n]
    IN  /\ timeline' = base \cup noteEvents \cup {tick}
        /\ scheduledEvents' = [i \in 1 .. n + 1 |-> nextEventId + i - 1]
        /\ nextEventId' = nextEventId + n + 1
        /\ tBpm' = tempo
        /\ tLoop' = LoopSetup(lp, tempo)
        /\ trackSynths' = synths \cup ActiveTrackIds(trs)

ScheduleNotes(trs, lp, tempo) == ScheduleNotesFrom(trackSynths, trs, lp, tempo)

\* The number of notes scheduleNotes would register.
RECURSIVE CountActiveNotes(_, _)
CountActiveNotes(trs, i) ==
    IF i > Len(trs) THEN 0
    ELSE (IF IsActive(trs[i], trs) THEN Len(trs[i].notes) ELSE 0)
         + CountActiveNotes(trs, i + 1)

(***************************************************************************)
(* The scheduler on its own: scheduleNotes and clearScheduledNotes called  *)
(* in any order with any of a small set of arguments.                      *)
(***************************************************************************)
MaxNotes == 2

TrackInputIds == <<"t1", "t2", "t3">>

\* The notes an input track may hold: a prefix of this list.
NoteCatalog ==
    << [pitch |-> 69, start |-> 0, duration |-> 1, velocity |-> 100],
       [pitch |-> 57, start |-> 1, duration |-> 2, velocity |-> 50] >>

NotesInput(i, k) ==
    [j \in 1 .. k |->
        [id |-> 10 * i + j, pitch |-> NoteCatalog[j].pitch,
         start |-> NoteCatalog[j].start, duration |-> NoteCatalog[j].duration,
         velocity |-> NoteCatalog[j].velocity]]

TrackConfigs(i) ==
    {[id |-> TrackInputIds[i], muted |-> m, solo |-> s, notes |-> NotesInput(i, k)] :
        m \in BOOLEAN, s \in BOOLEAN, k \in 0 .. Min(MaxNotes, Len(NoteCatalog))}

RECURSIVE CountNotes(_, _)
CountNotes(trs, i) ==
    IF i > Len(trs) THEN 0 ELSE Len(trs[i].notes) + CountNotes(trs, i + 1)

TrackListsOfLength(n) ==
    {trs \in [1 .. n -> UNION {TrackConfigs(i) : i \in 1 .. n}] :
        /\ \A i \in 1 .. n : trs[i] \in TrackConfigs(i)
        /\ CountNotes(trs, 1) <= MaxNotes}

TrackInputs == UNION {TrackListsOfLength(n) : n \in 0 .. Len(TrackInputIds)}

LoopInputs ==
    {[start |-> 0, end |-> DefaultLoopEnd, enabled |-> FALSE],
     [start |-> 1, end |-> MaxBeat, enabled |-> TRUE]}

EngScheduleNotes(trs, lp, tempo) ==
    /\ nextEventId + CountActiveNotes(trs, 1) <= MaxEventId
    /\ ScheduleNotes(trs, lp, tempo)
    /\ Logged("scheduleNotes", [tracks |-> trs, loop |-> lp, bpm |-> tempo], <<>>)
    /\ UNCHANGED <<transportVars, seekCallback, projectVars, isInitialized,
                   tState, drawQueue, tPosition, hookVars>>

EngClearScheduledNotes ==
    /\ ClearScheduledNotes
    /\ Logged("clearScheduledNotes", NoArg, <<>>)
    /\ UNCHANGED <<transportVars, seekCallback, projectVars, isInitialized,
                   trackSynths, nextEventId, tState, tBpm, tLoop, drawQueue,
                   tPosition, hookVars>>

\* The track lists the call sequences are run with: the lists over the first
\* two track ids in which no track is solo'd.
EngTrackInputIds == <<"t1", "t2">>

EngTrackInputs ==
    {trs \in UNION {TrackListsOfLength(n) : n \in 0 .. Len(EngTrackInputIds)} :
        ~HasSolo(trs)}

InitEngine ==
    /\ TransportInit
    /\ seekCallback = FALSE
    /\ RestInit

NextEngine ==
    \/ \E trs \in EngTrackInputs, lp \in LoopInputs, tempo \in BpmValues :
          EngScheduleNotes(trs, lp, tempo)
    \/ EngClearScheduledNotes

SpecEngine == InitEngine /\ [][NextEngine]_vars

(***************************************************************************)
(* One project, as loaded from storage, and the schedule built from it:    *)
(* scheduleNotes(tracks, loop, bpm) as useAudioEngine calls it, for every  *)
(* project of TrackInputs x LoopInputs x BpmValues.                        *)
(***************************************************************************)
InitSchedule ==
    /\ isPlaying = FALSE
    /\ isPaused = FALSE
    /\ currentBeat = 0
    /\ loop \in LoopInputs
    /\ metronomeEnabled = FALSE
    /\ metronomeVolume = DefaultMetronomeVolume
    /\ seekCallback = FALSE
    /\ bpm \in BpmValues
    /\ tracks \in TrackInputs
    /\ nextUid = 1
    /\ projectName = DefaultProjectName
    /\ timeSignature = DefaultTimeSignature
    /\ selectedTrackId = NoTrack
    /\ colorIndex = 0
    /\ past = <<>>
    /\ future = <<>>
    /\ isInitialized = FALSE
    /\ scheduledEvents = <<>>
    /\ trackSynths = {}
    /\ timeline = {}
    /\ nextEventId = 1
    /\ tState = "stopped"
    /\ tPosition = 0
    /\ tBpm = DefaultBpm
    /\ tLoop = [enabled |-> FALSE, start |-> 0, end |-> 0]
    /\ drawQueue = 0
    /\ isInitializedRef = FALSE
    /\ initPending = FALSE
    /\ renderPending = FALSE
    /\ effPlaying = FALSE
    /\ effPaused = FALSE
    /\ effBpm = bpm
    /\ tracksChanged = FALSE
    /\ prevTracksRef = {}
    /\ lastOp = "init"
    /\ actuals = NoArg
    /\ seekCalls = <<>>
    /\ returned = NoArg
    /\ selection = [noteIds |-> <<>>, trackId |-> "null"]
    /\ orphanVoices = <<>>
    /\ pendingPreviews = {}

NextSchedule ==
    \/ EngScheduleNotes(tracks, loop, bpm)
    \/ EngClearScheduledNotes

SpecSchedule == InitSchedule /\ [][NextSchedule]_vars


(***************************************************************************)
(* Claims about the scheduler.                                             *)
(***************************************************************************)
NoteEventsOf(tl) == {e \in tl : e.kind = "note"}

\* C3: after a scheduleNotes call the events pending on the transport are
\* exactly the ones that call registered, one per scheduled note plus one
\* tick: every event of an earlier call is gone, no note has two triggers
\* pending, and clearScheduledNotes with nothing pending changes nothing.
C3_ScheduleReplacesSchedule ==
    [][ /\ {e.id : e \in timeline'} = Range(scheduledEvents')
        /\ Cardinality(timeline') = Len(scheduledEvents')
        /\ (lastOp' = "scheduleNotes" =>
               /\ \A e \in timeline' : e.id >= nextEventId
               /\ Cardinality(NoteEventsOf(timeline'))
                     = CountActiveNotes(actuals'.tracks, 1)
               /\ Cardinality(timeline' \ NoteEventsOf(timeline')) = 1
               /\ \A e1, e2 \in NoteEventsOf(timeline') :
                     (e1.trackId = e2.trackId /\ e1.noteId = e2.noteId) => e1 = e2)
        /\ (lastOp' = "clearScheduledNotes" =>
               /\ timeline' = {}
               /\ (scheduledEvents = <<>> =>
                      UNCHANGED <<timeline, scheduledEvents, nextEventId, tBpm,
                                  tLoop, trackSynths>>))
      ]_vars

\* C3 witness: a scheduleNotes call that found three events of an earlier
\* call pending has replaced them by its own three.
C3_Witness ==
    /\ lastOp = "scheduleNotes"
    /\ Len(scheduledEvents) = 3
    /\ scheduledEvents[1] = 4
    /\ {e.id : e \in timeline} = {4, 5, 6}

\* C4: a schedule rebuild activates track t (creates or updates its synth
\* and registers its notes) iff t is not muted and either no track is
\* solo'd or t is solo'd.
C4_SoloMuteResolution ==
    lastOp = "scheduleNotes" =>
        \A i \in DOMAIN tracks :
            LET t == tracks[i]
                anySolo == \E k \in DOMAIN tracks : tracks[k].solo
                shouldPlay == ~t.muted /\ (~anySolo \/ t.solo)
            IN  /\ (t.id \in trackSynths) <=> shouldPlay
                /\ (\E e \in NoteEventsOf(timeline) : e.trackId = t.id)
                      <=> (shouldPlay /\ t.notes # <<>>)

\* C4 witness: A(solo=false, muted=false), B(solo=true, muted=false),
\* C(solo=false, muted=true) have been scheduled and only B is active.
C4_Witness ==
    /\ lastOp = "scheduleNotes"
    /\ Len(tracks) = 3
    /\ ~tracks[1].solo /\ ~tracks[1].muted /\ tracks[1].notes # <<>>
    /\ tracks[2].solo /\ ~tracks[2].muted /\ tracks[2].notes # <<>>
    /\ ~tracks[3].solo /\ tracks[3].muted
    /\ trackSynths = {tracks[2].id}
    /\ \A e \in NoteEventsOf(timeline) : e.trackId = tracks[2].id

\* C5: one schedule installation registers exactly one trigger for each
\* note of each active track and none for a note of an inactive track; the
\* trigger is registered at note.start * 60 / bpm seconds, carries the
\* duration note.duration * 60 / bpm seconds and the note's velocity, and
\* fires on the synth registered for the note's own track.
C5_OneTriggerPerActiveNote ==
    lastOp = "scheduleNotes" =>
        LET anySolo == \E k \in DOMAIN tracks : tracks[k].solo
            playing == {i \in DOMAIN tracks :
                           ~tracks[i].muted /\ (~anySolo \/ tracks[i].solo)}
        IN  /\ \A i \in playing : \A j \in DOMAIN tracks[i].notes :
                  LET n == tracks[i].notes[j]
                      es == {e \in NoteEventsOf(timeline) : e.noteId = n.id}
                  IN  /\ Cardinality(es) = 1
                      /\ \A e \in es :
                            /\ e.trackId = tracks[i].id
                            /\ e.trackId \in trackSynths
                            /\ e.time * bpm = n.start * 60000
                            /\ e.duration * bpm = n.duration * 60000
                            /\ e.velocity = n.velocity
            /\ \A e \in NoteEventsOf(timeline) :
                  \E i \in playing : \E j \in DOMAIN tracks[i].notes :
                      tracks[i].notes[j].id = e.noteId

\* C5 witness: two tracks, each with one note at beat 0 of duration 1, at
\* 120 bpm: exactly two triggers, both at t = 0 with duration 0.5 s, one
\* for each track's synth.
C5_Witness ==
    /\ lastOp = "scheduleNotes"
    /\ bpm = 120
    /\ Len(tracks) = 2
    /\ \A i \in 1 .. 2 :
          /\ Len(tracks[i].notes) = 1
          /\ tracks[i].notes[1].start = 0
          /\ tracks[i].notes[1].duration = 1
    /\ Cardinality(NoteEventsOf(timeline)) = 2
    /\ \A e \in NoteEventsOf(timeline) : e.time = 0 /\ e.duration = 500
    /\ {e.trackId : e \in NoteEventsOf(timeline)} = {tracks[1].id, tracks[2].id}
    /\ {tracks[1].id, tracks[2].id} \subseteq trackSynths

(***************************************************************************)
(* The running application: the stores, the useAudioEngine hook, the       *)
(* engine and the Tone.js transport and draw loop.                         *)
(*                                                                         *)
(* Scheduling.  A store update that changes a value the hook selects       *)
(* leaves a React render pending; React 18 flushes that render and the     *)
(* effects it triggers before the browser runs the next task, so no user   *)
(* event, transport callback, animation frame or promise resolution runs   *)
(* while a render is pending.  Of a track the model keeps the fields the   *)
(* scheduler reads: id, muted, solo, notes.                                *)
(***************************************************************************)
MaxUid == 2
MaxTracks == 1
MaxTrackNotes == 1
MaxDraw == 1
MaxPlaybackEventId == 4
MinBpm == 40
MaxBpm == 240

\* uuidv4(): an id not handed out before.
TrackUid(n) == "u" \o ToString(n)
NoteUid(n) == 100 + n

\* The controls of the project and of the loop are worked with the mouse, and
\* the first click anywhere runs handleFirstInteraction, which calls
\* initAudio(); play, pause and stop are also on the keyboard.
Clicked == isInitializedRef \/ initPending

\* A store update the hook's selectors see: the component re-renders.
Rerender(tracksTouched) ==
    /\ renderPending' = TRUE
    /\ tracksChanged' = (tracksChanged \/ tracksTouched)
    /\ UNCHANGED <<isInitializedRef, initPending, effPlaying, effPaused,
                   effBpm, prevTracksRef>>

\* What a project store action leaves alone.
outsideProject ==
    <<transportVars, seekCallback, engineVars, toneVars, tPosition, historyVars>>

\* TRACK_COLORS.length
PaletteSize == 10

\* getNextTrackColor(): the colour it returns, as its place in TRACK_COLORS.
NextTrackColor == colorIndex % PaletteSize

\* createDefaultTrack(name), restricted to the fields the scheduler reads
\* and the colour.
createDefaultTrack(uid) ==
    [id |-> TrackUid(uid), muted |-> FALSE, solo |-> FALSE, notes |-> <<>>,
     color |-> NextTrackColor]

\* state.tracks.filter((t) => t.id !== id)
RECURSIVE WithoutTrack(_, _)
WithoutTrack(trs, id) ==
    IF trs = <<>> THEN <<>>
    ELSE (IF Head(trs).id = id THEN <<>> ELSE <<Head(trs)>>)
         \o WithoutTrack(Tail(trs), id)

\* t.notes.filter((n) => n.id !== noteId)
RECURSIVE WithoutNote(_, _)
WithoutNote(ns, noteId) ==
    IF ns = <<>> THEN <<>>
    ELSE (IF Head(ns).id = noteId THEN <<>> ELSE <<Head(ns)>>)
         \o WithoutNote(Tail(ns), noteId)

\* state.tracks.map((t) => t.id === id ? f(t) : t), for the four updates.
MapTrack(trs, id, what, arg) ==
    [i \in DOMAIN trs |->
        IF trs[i].id # id THEN trs[i]
        ELSE CASE what = "mute" -> [trs[i] EXCEPT !.muted = ~trs[i].muted]
               [] what = "solo" -> [trs[i] EXCEPT !.solo = ~trs[i].solo]
               [] what = "addNote" -> [trs[i] EXCEPT !.notes = Append(trs[i].notes, arg)]
               [] what = "removeNote" ->
                      [trs[i] EXCEPT !.notes = WithoutNote(trs[i].notes, arg)]]

TrackIdsOf(trs) == {trs[i].id : i \in DOMAIN trs}

\* addTrack(): the new track takes the next palette colour and is selected.
AddTrackSet ==
    /\ tracks' = Append(tracks, createDefaultTrack(nextUid))
    /\ nextUid' = nextUid + 1
    /\ colorIndex' = colorIndex + 1
    /\ selectedTrackId' = TrackUid(nextUid)
    /\ UNCHANGED <<bpm, metaVars>>

AddTrack ==
    /\ Clicked
    /\ ~renderPending
    /\ Len(tracks) < MaxTracks
    /\ nextUid <= MaxUid
    /\ AddTrackSet
    /\ Rerender(TRUE)
    /\ Logged("addTrack", NoArg, <<>>)
    /\ UNCHANGED outsideProject

\* removeTrack(id): a removed selected track hands the selection to the
\* first remaining track.
\* A removeTrack that leaves the selection on the track it removed.
RemoveTrackKeepsSelection(id) ==
    /\ tracks' = WithoutTrack(tracks, id)
    /\ UNCHANGED <<bpm, nextUid, metaVars, selectionVars>>

RemoveTrackSet(id) ==
    /\ tracks' = WithoutTrack(tracks, id)
    /\ selectedTrackId' =
          (IF selectedTrackId = id
              THEN (IF Len(WithoutTrack(tracks, id)) > 0
                       THEN WithoutTrack(tracks, id)[1].id ELSE NoTrack)
              ELSE selectedTrackId)
    /\ UNCHANGED <<bpm, nextUid, metaVars, colorIndex>>

RemoveTrack(id) ==
    /\ Clicked
    /\ ~renderPending
    /\ RemoveTrackSet(id)
    /\ Rerender(TRUE)
    /\ Logged("removeTrack", id, <<>>)
    /\ UNCHANGED outsideProject

ToggleTrackMuteSet(id) ==
    /\ tracks' = MapTrack(tracks, id, "mute", NoArg)
    /\ UNCHANGED <<bpm, nextUid, metaVars, selectionVars>>

ToggleTrackMute(id) ==
    /\ Clicked
    /\ ~renderPending
    /\ ToggleTrackMuteSet(id)
    /\ Rerender(TRUE)
    /\ Logged("toggleTrackMute", id, <<>>)
    /\ UNCHANGED outsideProject

ToggleTrackSoloSet(id) ==
    /\ tracks' = MapTrack(tracks, id, "solo", NoArg)
    /\ UNCHANGED <<bpm, nextUid, metaVars, selectionVars>>

ToggleTrackSolo(id) ==
    /\ Clicked
    /\ ~renderPending
    /\ ToggleTrackSoloSet(id)
    /\ Rerender(TRUE)
    /\ Logged("toggleTrackSolo", id, <<>>)
    /\ UNCHANGED outsideProject

\* addNote(trackId, note): the note gets a fresh id.
AddNoteSet(id, note) ==
    /\ tracks' = MapTrack(tracks, id, "addNote",
                          [id |-> NoteUid(nextUid), pitch |-> note.pitch,
                           start |-> note.start, duration |-> note.duration,
                           velocity |-> note.velocity])
    /\ nextUid' = nextUid + 1
    /\ UNCHANGED <<bpm, metaVars, selectionVars>>

AddNote(id, note) ==
    /\ Clicked
    /\ ~renderPending
    /\ nextUid <= MaxUid
    /\ \A i \in DOMAIN tracks : tracks[i].id = id => Len(tracks[i].notes) < MaxTrackNotes
    /\ AddNoteSet(id, note)
    /\ Rerender(TRUE)
    /\ Logged("addNote", id, <<>>)
    /\ UNCHANGED outsideProject

RemoveNoteSet(id, noteId) ==
    /\ tracks' = MapTrack(tracks, id, "removeNote", noteId)
    /\ UNCHANGED <<bpm, nextUid, metaVars, selectionVars>>

RemoveNote(id, noteId) ==
    /\ Clicked
    /\ ~renderPending
    /\ RemoveNoteSet(id, noteId)
    /\ Rerender(TRUE)
    /\ Logged("removeNote", id, <<>>)
    /\ UNCHANGED outsideProject

\* setBpm: Math.max(40, Math.min(240, bpm))
SetBpmSet(tempo) ==
    /\ bpm' = Max(MinBpm, Min(MaxBpm, tempo))
    /\ UNCHANGED <<tracks, nextUid, metaVars, selectionVars>>

SetBpm(tempo) ==
    /\ Clicked
    /\ ~renderPending
    /\ SetBpmSet(tempo)
    /\ Rerender(FALSE)
    /\ Logged("setBpm", tempo, <<>>)
    /\ UNCHANGED outsideProject

\* What a transport store action of the UI leaves alone.
outsideTransportUi ==
    <<seekCallback, projectVars, engineVars, toneVars, tPosition>>

\* The play/pause button and the space key: isPlaying ? pause() : play().
UiPlay ==
    /\ ~renderPending
    /\ ~isPlaying
    /\ PlaySet
    /\ Rerender(FALSE)
    /\ Logged("play", NoArg, <<>>)
    /\ UNCHANGED outsideTransportUi

UiPause ==
    /\ ~renderPending
    /\ isPlaying
    /\ PauseSet
    /\ Rerender(FALSE)
    /\ Logged("pause", NoArg, <<>>)
    /\ UNCHANGED outsideTransportUi

\* The stop button and the escape key.
UiStop ==
    /\ ~renderPending
    /\ StopSet
    /\ Rerender(FALSE)
    /\ Logged("stop", NoArg, <<>>)
    /\ UNCHANGED outsideTransportUi

\* The seek bar and the skip buttons; the hook selects nothing seek changes.
UiSeek(beat) ==
    /\ Clicked
    /\ ~renderPending
    /\ Seek(beat)

UiToggleLoop ==
    /\ Clicked
    /\ ~renderPending
    /\ loop' = [loop EXCEPT !.enabled = ~loop.enabled]
    /\ UNCHANGED <<isPlaying, isPaused, currentBeat, metronomeEnabled, metronomeVolume>>
    /\ Rerender(FALSE)
    /\ Logged("toggleLoop", NoArg, <<>>)
    /\ UNCHANGED outsideTransportUi

\* Dragging the loop region: the component keeps start >= 0 and end > start.
UiSetLoopRegion(start, end) ==
    /\ Clicked
    /\ ~renderPending
    /\ loop.enabled
    /\ loop' = [loop EXCEPT !.start = LoopRegionOf(start, end).start,
                            !.end = LoopRegionOf(start, end).end]
    /\ UNCHANGED <<isPlaying, isPaused, currentBeat, metronomeEnabled, metronomeVolume>>
    /\ Rerender(FALSE)
    /\ Logged("setLoopRegion", <<start, end>>, <<>>)
    /\ UNCHANGED outsideTransportUi

\* The first click: initAudio() awaits engine.initAudio(), which awaits
\* Tone.start().
InitAudioBegin ==
    /\ ~isInitializedRef
    /\ ~initPending
    /\ initPending' = TRUE
    /\ Logged("initAudio", NoArg, <<>>)
    /\ UNCHANGED <<transportVars, seekCallback, projectVars, engineVars,
                   toneVars, tPosition, isInitializedRef, renderPending,
                   effPlaying, effPaused, effBpm, tracksChanged, prevTracksRef>>

\* Tone.start() resolves: engine.isInitialized and then the hook's
\* isInitializedRef are set.  No state changes, so nothing re-renders.
AudioStarted ==
    /\ initPending
    /\ ~renderPending
    /\ initPending' = FALSE
    /\ isInitialized' = TRUE
    /\ isInitializedRef' = TRUE
    /\ Logged("audioStarted", NoArg, <<>>)
    /\ UNCHANGED <<transportVars, seekCallback, projectVars, scheduledEvents,
                   trackSynths, toneVars, tPosition, renderPending,
                   effPlaying, effPaused, effBpm, tracksChanged, prevTracksRef>>

\* The synth sync effect (deps [tracks]): create or update the synth of every
\* track, dispose the synths of the tracks that are gone.
SyncedSynths ==
    IF tracksChanged
       THEN (trackSynths \cup TrackIdsOf(tracks)) \ (prevTracksRef \ TrackIdsOf(tracks))
       ELSE trackSynths

\* The playback-state effect runs when isPlaying or isPaused differ from
\* the values it last ran with.
PlaybackEffectRuns == isPlaying # effPlaying \/ isPaused # effPaused

\* What every commit does: the effects' dependencies are recorded, the synth
\* sync effect updates prevTracksRef.
Commit ==
    /\ renderPending
    /\ renderPending' = FALSE
    /\ tracksChanged' = FALSE
    /\ prevTracksRef' = (IF tracksChanged THEN TrackIdsOf(tracks) ELSE prevTracksRef)
    /\ effPlaying' = isPlaying
    /\ effPaused' = isPaused
    /\ effBpm' = bpm
    /\ UNCHANGED <<isInitializedRef, initPending>>
    /\ UNCHANGED <<transportVars, seekCallback, projectVars, isInitialized, drawQueue>>

\* The BPM effect (deps [bpm]): engine.setBPM(bpm).
BpmEffect == tBpm' = (IF bpm # effBpm THEN bpm ELSE tBpm)

\* A commit in which the playback-state effect does not run, or returns at
\* once because isInitializedRef is false.
RenderNoPlayback ==
    /\ Commit
    /\ ~PlaybackEffectRuns \/ ~isInitializedRef
    /\ trackSynths' = SyncedSynths
    /\ BpmEffect
    /\ UNCHANGED <<scheduledEvents, timeline, nextEventId, tState, tLoop, tPosition>>
    /\ Logged("render", NoArg, <<>>)

\* ... in which it runs with isPlaying: scheduleNotes, startPlayback.
RenderPlayUpTo(maxEventId) ==
    /\ Commit
    /\ PlaybackEffectRuns /\ isInitializedRef
    /\ isPlaying
    /\ nextEventId + CountActiveNotes(tracks, 1) <= maxEventId
    /\ ScheduleNotesFrom(SyncedSynths, tracks, loop, bpm)
    /\ tState' = "started"
    /\ UNCHANGED tPosition
    /\ Logged("render", "play", <<>>)

RenderPlay == RenderPlayUpTo(MaxPlaybackEventId)

\* ... in which it runs with neither flag set: stopPlayback, clearScheduledNotes.
RenderStop ==
    /\ Commit
    /\ PlaybackEffectRuns /\ isInitializedRef
    /\ ~isPlaying /\ ~isPaused
    /\ tState' = "stopped"
    /\ tPosition' = 0
    /\ ClearScheduledNotes
    /\ trackSynths' = SyncedSynths
    /\ BpmEffect
    /\ UNCHANGED <<nextEventId, tLoop>>
    /\ Logged("render", "stop", <<>>)

\* ... in which it runs with isPaused: pausePlayback.
RenderPause ==
    /\ Commit
    /\ PlaybackEffectRuns /\ isInitializedRef
    /\ ~isPlaying /\ isPaused
    /\ tState' = (IF tState = "started" THEN "paused" ELSE tState)
    /\ trackSynths' = SyncedSynths
    /\ BpmEffect
    /\ UNCHANGED <<scheduledEvents, timeline, nextEventId, tLoop, tPosition>>
    /\ Logged("render", "pause", <<>>)

\* The ids of a set of events, the event registered last first.
RECURSIVE IdsLastFirst(_)
IdsLastFirst(es) ==
    IF es = {} THEN <<>>
    ELSE LET last == CHOOSE e \in es : \A f \in es : e.id >= f.id
         IN  <<last.id>> \o IdsLastFirst(es \ {last})

\* The ids of a set of events in the order they were registered.
RECURSIVE IdsInOrder(_)
IdsInOrder(es) ==
    IF es = {} THEN <<>>
    ELSE LET first == CHOOSE e \in es : \A f \in es : e.id <= f.id
         IN  <<first.id>> \o IdsInOrder(es \ {first})

\* The position the running transport processes next: with the loop on, a
\* position at or past the loop end wraps to the loop start.
ClockPosition ==
    IF tLoop.enabled /\ tPosition >= tLoop.end THEN tLoop.start ELSE tPosition

\* The notes whose trigger fires at the position processed: the callback
\* triggers the synth registered for its track, if there is one.
DueNotes ==
    {e \in timeline : e.kind = "note" /\ e.beat = ClockPosition
                      /\ e.trackId \in trackSynths}

\* The started transport processes one beat: the note triggers due there
\* fire, the tick hands a draw callback to Tone.getDraw(), time moves on.
ClockStep ==
    /\ tState = "started"
    /\ ~renderPending
    /\ ClockPosition <= MaxBeat
    /\ drawQueue < MaxDraw
    /\ tPosition' = ClockPosition + 1
    /\ drawQueue' = (IF \E e \in timeline : e.kind = "tick"
                        THEN drawQueue + 1 ELSE drawQueue)
    /\ Logged("clock", IdsInOrder(DueNotes), <<>>)
    /\ UNCHANGED <<transportVars, seekCallback, projectVars, engineVars,
                   timeline, nextEventId, tState, tBpm, tLoop, hookVars>>

\* transport.position as Tone.js prints it, bars:quarters:sixteenths in 4/4.
PositionString(beats) == <<beats \div 4, beats % 4, 0>>

\* The callback's parse: bars * 4 + beats + sixteenths / 4.
ParsePosition(str) == str[1] * 4 + str[2] + str[3] \div 4

\* An animation frame runs a queued draw callback: it reads the transport's
\* position and calls onBeatUpdate, which is setCurrentBeat.
DrawFrame ==
    /\ drawQueue > 0
    /\ ~renderPending
    /\ drawQueue' = drawQueue - 1
    /\ SetCurrentBeatSet(ParsePosition(PositionString(tPosition)))
    /\ Logged("onBeatUpdate", ParsePosition(PositionString(tPosition)), <<>>)
    /\ UNCHANGED <<seekCallback, projectVars, engineVars, timeline, nextEventId,
                   tState, tBpm, tLoop, tPosition, hookVars>>

\* The application after the first render of App: useAudioEngine has
\* registered the seek callback and run its effects once.
InitPlayback ==
    /\ TransportInit
    /\ seekCallback = TRUE
    /\ RestInit

NextPlayback ==
    \/ AddTrack
    \/ \E id \in TrackIdsOf(tracks) : RemoveTrack(id)
    \/ \E id \in TrackIdsOf(tracks) : ToggleTrackMute(id)
    \/ \E id \in TrackIdsOf(tracks) : ToggleTrackSolo(id)
    \/ \E id \in TrackIdsOf(tracks) : AddNote(id, NoteCatalog[1])
    \/ \E i \in DOMAIN tracks : \E j \in DOMAIN tracks[i].notes :
          RemoveNote(tracks[i].id, tracks[i].notes[j].id)
    \/ \E tempo \in BpmValues : SetBpm(tempo)
    \/ UiPlay
    \/ UiPause
    \/ UiStop
    \/ \E beat \in {0, MaxBeat} : UiSeek(beat)
    \/ UiToggleLoop
    \/ UiSetLoopRegion(1, MaxBeat)
    \/ InitAudioBegin
    \/ AudioStarted
    \/ RenderNoPlayback
    \/ RenderPlay
    \/ RenderStop
    \/ RenderPause
    \/ ClockStep
    \/ DrawFrame

SpecPlayback == InitPlayback /\ [][NextPlayback]_vars

\* What of a note event a schedule is compared by: the note, its track, the
\* beat it sits at on the transport, its pitch and its velocity.
ScheduleKey(e) ==
    [trackId |-> e.trackId, noteId |-> e.noteId, beat |-> e.beat,
     frequency |-> e.frequency, velocity |-> e.velocity]

\* The note events scheduleNotes would install for the project as it is now.
CurrentTriggers ==
    LET trig == NoteTriggers(tracks, 1, bpm)
    IN  {ScheduleKey(trig[i]) : i \in DOMAIN trig}

\* C1: while the transport is playing, once the render a change caused has
\* been committed, the schedule installed on the running transport is the
\* one of the current tracks, loop and bpm: the same note events, the same
\* tempo, the same loop.
C1_ScheduleFollowsEdits ==
    (isPlaying /\ tState = "started" /\ ~renderPending) =>
        /\ {ScheduleKey(e) : e \in NoteEventsOf(timeline)} = CurrentTriggers
        /\ tBpm = bpm
        /\ tLoop.enabled = loop.enabled
        /\ (loop.enabled => tLoop = LoopSetup(loop, bpm))

\* C2: a note trigger or an onBeatUpdate callback fires only while the store
\* says playing: none fires once pause() or stop() has returned and play()
\* has not been called again.
C2_NoCallbackAfterStopOrPause ==
    [][ (lastOp' = "onBeatUpdate" \/ (lastOp' = "clock" /\ actuals' # <<>>))
            => isPlaying ]_vars

(***************************************************************************)
(* Project store: projectStore.ts, called directly, with the palette's     *)
(* colorIndex (colorPalette.ts) and the file import of the Toolbar.        *)
(***************************************************************************)
MaxDocTracks == 2
MaxDocUid == 3

\* The tempos setBpm is called with: below, at and above both clamps.
BpmArgs == {MinBpm - 1, MinBpm, DefaultBpm, MaxBpm, MaxBpm + 1}

\* What a direct project store call leaves alone.
outsideProjectStore == <<outsideProject, hookVars>>

\* The value of a property an object does not have.
Undefined == "undefined"

\* project.name and the like: property access on a parsed object.
Field(obj, key) == IF key \in DOMAIN obj THEN obj[key] ELSE Undefined

\* A track as a project file holds it.
FileTrack ==
    [id |-> "f1", muted |-> FALSE, solo |-> FALSE, color |-> 0,
     notes |-> <<[id |-> 1, pitch |-> 60, start |-> 0, duration |-> 1,
                  velocity |-> 80]>>]

\* Well-formed projects: in and out of the tempo range, with and without
\* tracks.
ProjectInputs ==
    {[name |-> "Song", bpm |-> b, timeSignature |-> <<3, 4>>, tracks |-> trs] :
        b \in {DefaultBpm, MaxBpm + 60}, trs \in {<<>>, <<FileTrack>>}}

\* Parsed objects with a field missing.
MalformedObjects ==
    {[bpm |-> DefaultBpm, timeSignature |-> <<3, 4>>, tracks |-> <<FileTrack>>],
     [name |-> "Song", bpm |-> DefaultBpm, timeSignature |-> <<3, 4>>]}

\* The text of a file: not JSON at all, or the JSON text of an object.
FileInputs ==
    {[json |-> FALSE, value |-> Undefined]}
    \cup {[json |-> TRUE, value |-> obj] : obj \in ProjectInputs \cup MalformedObjects}

\* A file the import has to refuse: corrupt text or a missing field.
Malformed(file) ==
    ~file.json \/ {"name", "bpm", "timeSignature", "tracks"} \ DOMAIN file.value # {}

\* project.tracks.length throws a TypeError when project.tracks is undefined.
ImportThrows(project) == "tracks" \notin DOMAIN project

\* importProject(project): resetColorIndex() runs first; reading
\* project.tracks.length throws before anything else is done; otherwise the
\* colour index and the five store fields are set from the object as it is.
ImportProjectSet(project) ==
    IF ImportThrows(project)
       THEN /\ colorIndex' = 0
            /\ UNCHANGED <<bpm, tracks, nextUid, metaVars, selectedTrackId>>
       ELSE /\ colorIndex' = Len(project.tracks)
            /\ projectName' = Field(project, "name")
            /\ bpm' = project.bpm
            /\ timeSignature' = project.timeSignature
            /\ tracks' = project.tracks
            /\ selectedTrackId' =
                  (IF Len(project.tracks) > 0 THEN project.tracks[1].id ELSE NoTrack)
            /\ UNCHANGED nextUid

ImportProject(project) ==
    /\ ImportProjectSet(project)
    /\ LoggedReturning("importProject", project,
                       IF ImportThrows(project) THEN "TypeError" ELSE NoArg)
    /\ UNCHANGED outsideProjectStore

\* Toolbar.handleFileChange, reader.onload: JSON.parse and importProject
\* inside one try; the catch logs and shows alert('Invalid project file').
ImportFile(file) ==
    /\ IF file.json
          THEN ImportProjectSet(file.value)
          ELSE UNCHANGED <<bpm, tracks, nextUid, metaVars, selectionVars>>
    /\ LoggedReturning("importFile", file,
                       IF ~file.json \/ ImportThrows(file.value)
                          THEN "alert" ELSE NoArg)
    /\ UNCHANGED outsideProjectStore

ResetProject ==
    /\ colorIndex' = 0
    /\ projectName' = DefaultProjectName
    /\ bpm' = DefaultBpm
    /\ timeSignature' = DefaultTimeSignature
    /\ tracks' = <<>>
    /\ selectedTrackId' = NoTrack
    /\ UNCHANGED nextUid
    /\ Logged("resetProject", NoArg, <<>>)
    /\ UNCHANGED outsideProjectStore

StoreSetBpm(tempo) ==
    /\ SetBpmSet(tempo)
    /\ Logged("setBpm", tempo, <<>>)
    /\ UNCHANGED outsideProjectStore

StoreAddTrack ==
    /\ Len(tracks) < MaxDocTracks
    /\ nextUid <= MaxDocUid
    /\ AddTrackSet
    /\ Logged("addTrack", NoArg, <<>>)
    /\ UNCHANGED outsideProjectStore

StoreRemoveTrack(id) ==
    /\ RemoveTrackSet(id)
    /\ Logged("removeTrack", [id |-> id, selected |-> selectedTrackId], <<>>)
    /\ UNCHANGED outsideProjectStore

SelectTrack(id) ==
    /\ selectedTrackId' = id
    /\ UNCHANGED <<bpm, tracks, nextUid, metaVars, colorIndex>>
    /\ Logged("selectTrack", id, <<>>)
    /\ UNCHANGED outsideProjectStore

InitProject ==
    /\ TransportInit
    /\ seekCallback = FALSE
    /\ RestInit

NextProject ==
    \/ \E tempo \in BpmArgs : StoreSetBpm(tempo)
    \/ StoreAddTrack
    \/ \E id \in TrackIdsOf(tracks) : StoreRemoveTrack(id)
    \/ \E id \in TrackIdsOf(tracks) : SelectTrack(id)
    \/ \E project \in ProjectInputs : ImportProject(project)
    \/ \E file \in FileInputs : ImportFile(file)
    \/ ResetProject

SpecProject == InitProject /\ [][NextProject]_vars

\* C11: the project's bpm lies in [40, 240] in every reachable state of the
\* project store, and a setBpm call stores the bound nearest to an
\* out-of-range argument.
C11_BpmInRange ==
    /\ bpm >= MinBpm
    /\ bpm <= MaxBpm
    /\ (lastOp = "setBpm" /\ actuals < MinBpm => bpm = MinBpm)
    /\ (lastOp = "setBpm" /\ actuals > MaxBpm => bpm = MaxBpm)

\* C12: an import of malformed data (text that is not JSON, or an object
\* with a field missing) shows the user an error and leaves the project
\* name, bpm, time signature, tracks, selected track and the palette's
\* colour index as they were.
C12_MalformedImportAborts ==
    [][ (lastOp' = "importFile" /\ Malformed(actuals')) =>
            /\ returned' = "alert"
            /\ UNCHANGED <<projectName, bpm, timeSignature, tracks,
                           selectedTrackId, colorIndex>> ]_vars

(***************************************************************************)
(* History store: historyStore.ts, called directly.  A snapshot is the     *)
(* Map from track id to that track's cloned notes, modelled as a function; *)
(* an optional snapshot argument and a returned snapshot are sequences of  *)
(* at most one snapshot, <<>> being undefined and null.                    *)
(***************************************************************************)
MAX_HISTORY == 50
MaxPast == 3

Null == <<>>

\* JSON.parse(JSON.stringify(notes)): a new array of new objects holding the
\* own properties of each note; every number of the model is finite, so it
\* is written and read back as the same number.
JsonClone(notes) ==
    [i \in 1 .. Len(notes) |-> [key \in DOMAIN notes[i] |-> notes[i][key]]]

\* The snapshot pushState and the project store's undo and redo build:
\* snapshot.set(track.id, clone of track.notes) for each track in order, a
\* later track of the same id replacing the earlier entry.
Snapshot(trs) ==
    [id \in TrackIdsOf(trs) |->
        LET last == CHOOSE i \in DOMAIN trs :
                       /\ trs[i].id = id
                       /\ \A j \in DOMAIN trs : trs[j].id = id => j <= i
        IN  JsonClone(trs[last].notes)]

canUndo == Len(past) > 0
canRedo == Len(future) > 0

\* A pushState that leaves future as it is.
PushStateKeepsFuture(trs) ==
    /\ past' = Append(past, Snapshot(trs))
    /\ UNCHANGED future

\* A pushState that evicts the newest entry instead of the oldest.
PushStateEvictsNewest(trs) ==
    LET newPast == Append(past, Snapshot(trs))
    IN  /\ past' = (IF Len(newPast) > MAX_HISTORY
                       THEN SubSeq(newPast, 1, MAX_HISTORY) ELSE newPast)
        /\ future' = <<>>

\* pushState(tracks)
PushStateSet(trs) ==
    LET newPast == Append(past, Snapshot(trs))
    IN  /\ past' = (IF Len(newPast) > MAX_HISTORY THEN Tail(newPast) ELSE newPast)
        /\ future' = <<>>

\* undo(currentState?): what it returns, and what it does to the stacks.
UndoResult == IF Len(past) = 0 THEN Null ELSE <<past[Len(past)]>>

\* An undo that puts the current state at the far end of future.
HistoryUndoAppendsFuture(current) ==
    IF Len(past) = 0
       THEN UNCHANGED <<past, future>>
       ELSE /\ past' = SubSeq(past, 1, Len(past) - 1)
            /\ future' = (IF current # <<>> THEN future \o current ELSE future)

HistoryUndoSet(current) ==
    IF Len(past) = 0
       THEN UNCHANGED <<past, future>>
       ELSE /\ past' = SubSeq(past, 1, Len(past) - 1)
            /\ future' = (IF current # <<>> THEN current \o future ELSE future)

\* A redo that saves the current state to past even with nothing to redo.
HistoryRedoAlwaysSaves(current) ==
    /\ future' = (IF Len(future) = 0 THEN future ELSE Tail(future))
    /\ past' = (IF current # <<>> THEN past \o current ELSE past)

\* redo(currentState?)
RedoResult == IF Len(future) = 0 THEN Null ELSE <<future[1]>>

HistoryRedoSet(current) ==
    IF Len(future) = 0
       THEN UNCHANGED <<past, future>>
       ELSE /\ future' = Tail(future)
            /\ past' = (IF current # <<>> THEN past \o current ELSE past)

\* What a direct history store call leaves alone.
outsideHistory ==
    <<transportVars, seekCallback, bpm, tracks, nextUid, metaVars, selectionVars,
      engineVars, toneVars, tPosition, hookVars>>

PushState(trs) ==
    /\ PushStateSet(trs)
    /\ Logged("pushState", trs, <<>>)
    /\ UNCHANGED outsideHistory

HistoryUndo(current) ==
    /\ HistoryUndoSet(current)
    /\ LoggedReturning("undo", current, UndoResult)
    /\ UNCHANGED outsideHistory

HistoryRedo(current) ==
    /\ HistoryRedoSet(current)
    /\ LoggedReturning("redo", current, RedoResult)
    /\ UNCHANGED outsideHistory

HistoryClear ==
    /\ past' = <<>>
    /\ future' = <<>>
    /\ Logged("clear", NoArg, <<>>)
    /\ UNCHANGED outsideHistory

\* The track lists pushState is called with, and the one whose snapshot is
\* passed to undo and redo as the current state.
HistoryNote(n) ==
    [id |-> n, pitch |-> 60 + n, start |-> n, duration |-> 1, velocity |-> 80]

HistoryTrackInputs ==
    {<<[id |-> "t1", notes |-> <<HistoryNote(1)>>]>>,
     <<[id |-> "t1", notes |-> <<HistoryNote(1), HistoryNote(2)>>]>>}

CurrentTrackInput == <<[id |-> "t1", notes |-> <<>>]>>

CurrentArgs == {<<>>, <<Snapshot(CurrentTrackInput)>>}

InitHistory ==
    /\ TransportInit
    /\ seekCallback = FALSE
    /\ RestInit

NextHistory ==
    \/ \E trs \in HistoryTrackInputs : Len(past) < MaxPast /\ PushState(trs)
    \/ \E current \in CurrentArgs : HistoryUndo(current)
    \/ \E current \in CurrentArgs : HistoryRedo(current)
    \/ HistoryClear

SpecHistory == InitHistory /\ [][NextHistory]_vars

\* C13: pushState(tracks) appends the snapshot of the tracks' notes as the
\* newest entry of past and empties future, so after it canRedo() is false
\* and a redo() returns null and changes nothing.
C13_PushStateClearsRedo ==
    [][ /\ (lastOp' = "pushState" =>
               /\ Len(past') > 0
               /\ DOMAIN past'[Len(past')] = TrackIdsOf(actuals')
               /\ \A i \in DOMAIN actuals' :
                     past'[Len(past')][actuals'[i].id] = actuals'[i].notes
               /\ SubSeq(past', 1, Len(past') - 1)
                     = (IF Len(past) < MAX_HISTORY THEN past ELSE Tail(past))
               /\ future' = <<>>
               /\ ~canRedo')
        /\ (lastOp = "pushState" /\ lastOp' = "redo" =>
               /\ returned' = Null
               /\ UNCHANGED <<past, future>>)
      ]_vars

\* C13 witness: a pushState that followed an undo and a redo with a current
\* state (the redo put that state's snapshot on past) has left future empty.
C13_Witness ==
    /\ lastOp = "pushState"
    /\ Len(past) = MaxPast
    /\ \E i \in 1 .. Len(past) : past[i] = Snapshot(CurrentTrackInput)
    /\ future = <<>>

\* C18: with S1 and then S2 pushed, the first undo() returns S1, the
\* snapshot pushed before the newest one, and the next undo() the one
\* before that; two redo() calls then return the newer snapshots again.
C18_HistoryLinearity ==
    [][ /\ (lastOp = "pushState" /\ Len(past) >= 2
              /\ lastOp' = "undo" /\ actuals' = <<>> =>
                  returned' = <<past[Len(past) - 1]>>)
        /\ (lastOp = "undo" /\ actuals = <<>> /\ returned # Null
              /\ lastOp' = "redo" /\ actuals' = <<>> =>
                  returned' # Null)
      ]_vars

(***************************************************************************)
(* The history store at its cap: every call sequence of pushState, undo    *)
(* and redo, with and without a current state, over one snapshot value, so *)
(* that the stacks are told apart by their lengths only.                   *)
(***************************************************************************)
NextHistoryCap ==
    \/ PushState(CurrentTrackInput)
    \/ \E current \in CurrentArgs : HistoryUndo(current)
    \/ \E current \in CurrentArgs : HistoryRedo(current)
    \/ HistoryClear

SpecHistoryCap == InitHistory /\ [][NextHistoryCap]_vars

\* C14: past holds at most 50 snapshots and future holds at most 50
\* snapshots in every reachable state of the history store, hence together
\* at most 2 * maxHistory.
C14_StacksBounded ==
    /\ Len(past) <= MAX_HISTORY
    /\ Len(future) <= MAX_HISTORY
    /\ Len(past) + Len(future) <= 2 * MAX_HISTORY

\* C14 witness: a redo with a current state has pushed its snapshot onto a
\* past of 49 entries, filling it to the cap.
C14_Witness ==
    /\ lastOp = "redo"
    /\ actuals # <<>>
    /\ returned # Null
    /\ Len(past) = MAX_HISTORY

(***************************************************************************)
(* Consecutive pushState calls on an empty history: the project as loaded  *)
(* from storage, each call made with the tracks carrying one more note.    *)
(***************************************************************************)
MaxPushes == 60

\* The tracks of the n-th call: every track has note n appended.
PushArg(trs, n) ==
    [i \in DOMAIN trs |-> [trs[i] EXCEPT !.notes = Append(@, HistoryNote(NoteUid(n)))]]

PushNext ==
    /\ nextUid <= MaxPushes
    /\ PushStateSet(PushArg(tracks, nextUid))
    /\ nextUid' = nextUid + 1
    /\ Logged("pushState", PushArg(tracks, nextUid), <<>>)
    /\ UNCHANGED <<transportVars, seekCallback, bpm, tracks, metaVars, selectionVars,
                   engineVars, toneVars, tPosition, hookVars>>

\* The application with a project loaded from storage, its tracks one of
\* `inputs`; the audio engine untouched.
InitLoaded(inputs, registered) ==
    /\ TransportInit
    /\ seekCallback = registered
    /\ bpm = DefaultBpm
    /\ tracks \in inputs
    /\ nextUid = 1
    /\ projectName = DefaultProjectName
    /\ timeSignature = DefaultTimeSignature
    /\ selectedTrackId = tracks[1].id
    /\ colorIndex = Len(tracks)
    /\ past = <<>>
    /\ future = <<>>
    /\ isInitialized = FALSE
    /\ scheduledEvents = <<>>
    /\ trackSynths = {}
    /\ timeline = {}
    /\ nextEventId = 1
    /\ tState = "stopped"
    /\ tPosition = 0
    /\ tBpm = DefaultBpm
    /\ tLoop = [enabled |-> FALSE, start |-> 0, end |-> 0]
    /\ drawQueue = 0
    /\ isInitializedRef = FALSE
    /\ initPending = FALSE
    /\ renderPending = FALSE
    /\ effPlaying = FALSE
    /\ effPaused = FALSE
    /\ effBpm = DefaultBpm
    /\ tracksChanged = FALSE
    /\ prevTracksRef = {}
    /\ lastOp = "init"
    /\ actuals = NoArg
    /\ seekCalls = <<>>
    /\ returned = NoArg
    /\ selection = [noteIds |-> <<>>, trackId |-> "null"]
    /\ orphanVoices = <<>>
    /\ pendingPreviews = {}

InitWithTracks(inputs) == InitLoaded(inputs, FALSE)

InitPushes == InitWithTracks(HistoryTrackInputs \cup {CurrentTrackInput})

NextPushes == PushNext

SpecPushes == InitPushes /\ [][NextPushes]_vars

\* C15: after n consecutive pushState calls on an empty history past holds
\* exactly the min(n, 50) most recently pushed snapshots, in push order.
C15_PastKeepsNewest ==
    LET n == nextUid - 1
        k == Min(n, MAX_HISTORY)
    IN  /\ Len(past) = k
        /\ future = <<>>
        /\ \A i \in 1 .. k :
              /\ DOMAIN past[i] = TrackIdsOf(tracks)
              /\ \A id \in DOMAIN past[i] :
                    past[i][id][Len(past[i][id])].id = NoteUid(n - k + i)

\* C15 witness: 60 calls have been made; past has 50 entries, the oldest of
\* them the snapshot of the 11th call.
C15_Witness ==
    /\ nextUid - 1 = 60
    /\ Len(past) = 50
    /\ \A id \in DOMAIN past[1] : past[1][id][Len(past[1][id])].id = NoteUid(11)
    /\ \A id \in DOMAIN past[50] : past[50][id][Len(past[50][id])].id = NoteUid(60)

(***************************************************************************)
(* Note editing with undo: the project store's note actions, its           *)
(* saveToHistory, undo and redo, the history store underneath, and the     *)
(* edits of the piano roll (PianoRoll, NoteBlock) that call them.          *)
(***************************************************************************)
MaxEditUid == 1
MaxEditPast == 1
MaxEditNotes == 2

\* Ids that name no track and no note.
AbsentTrack == "absent"
AbsentNote == 0

\* What the note actions, saveToHistory, undo and redo leave alone.
outsideEdit ==
    <<transportVars, seekCallback, bpm, metaVars, selectionVars, engineVars,
      toneVars, tPosition, hookVars>>

\* { ...n, ...updates }
Merged(n, updates) ==
    [key \in DOMAIN n \cup DOMAIN updates |->
        IF key \in DOMAIN updates THEN updates[key] ELSE n[key]]

\* updateNote: t.notes.map((n) => n.id === noteId ? { ...n, ...updates } : n)
UpdatedNotes(notes, noteId, updates) ==
    [i \in DOMAIN notes |->
        IF notes[i].id = noteId THEN Merged(notes[i], updates) ELSE notes[i]]

\* A removeNotes filter that drops every note of the track.
RemainingNotesNone(notes, noteIds) == <<>>

\* removeNotes: t.notes.filter((n) => !noteIdSet.has(n.id))
RemainingNotes(notes, noteIds) ==
    SelectSeq(notes, LAMBDA n : n.id \notin Range(noteIds))

\* duplicateNotes: track.notes.filter(n => noteIdSet.has(n.id)), the notes to
\* copy, in the order the track holds them.
NotesToDuplicate(notes, noteIds) ==
    SelectSeq(notes, LAMBDA n : n.id \in Range(noteIds))

\* state.tracks.find(t => t.id === trackId)
FindTrack(trs, trackId) ==
    trs[CHOOSE i \in DOMAIN trs :
            trs[i].id = trackId /\ \A j \in DOMAIN trs : trs[j].id = trackId => i <= j]

\* Copies that keep the id of the note they copy.
NewNotesKeepIds(trs, trackId, noteIds, uid) ==
    IF trackId \notin TrackIdsOf(trs) THEN <<>>
    ELSE NotesToDuplicate(FindTrack(trs, trackId).notes, noteIds)

\* newNotes: the copies, each with a fresh id.
NewNotes(trs, trackId, noteIds, uid) ==
    IF trackId \notin TrackIdsOf(trs) THEN <<>>
    ELSE LET src == NotesToDuplicate(FindTrack(trs, trackId).notes, noteIds)
         IN  [i \in DOMAIN src |-> [src[i] EXCEPT !.id = NoteUid(uid + i - 1)]]

UpdateNoteSet(trackId, noteId, updates) ==
    /\ tracks' = [i \in DOMAIN tracks |->
                     IF tracks[i].id = trackId
                        THEN [tracks[i] EXCEPT !.notes = UpdatedNotes(@, noteId, updates)]
                        ELSE tracks[i]]
    /\ UNCHANGED nextUid

RemoveNotesSet(trackId, noteIds) ==
    /\ tracks' = [i \in DOMAIN tracks |->
                     IF tracks[i].id = trackId
                        THEN [tracks[i] EXCEPT !.notes = RemainingNotes(@, noteIds)]
                        ELSE tracks[i]]
    /\ UNCHANGED nextUid

\* duplicateNotes returns newNotes.map(n => n.id).
DuplicateNotesResult(trackId, noteIds) ==
    [i \in DOMAIN NewNotes(tracks, trackId, noteIds, nextUid) |->
        NewNotes(tracks, trackId, noteIds, nextUid)[i].id]

DuplicateNotesSet(trackId, noteIds) ==
    IF trackId \notin TrackIdsOf(tracks)
       THEN UNCHANGED <<tracks, nextUid>>
       ELSE /\ tracks' = [i \in DOMAIN tracks |->
                             IF tracks[i].id = trackId
                                THEN [tracks[i] EXCEPT !.notes =
                                         @ \o NewNotes(tracks, trackId, noteIds, nextUid)]
                                ELSE tracks[i]]
            /\ nextUid' = nextUid + Len(NewNotes(tracks, trackId, noteIds, nextUid))

\* An undo that passes no current snapshot to the history store.
NoSnapshotArg(trs) == <<>>

\* The currentSnapshot undo and redo build and pass on.
CurrentSnapshotArg(trs) == <<Snapshot(trs)>>

\* A snapshot applied so that a track it does not name loses its notes.
ApplySnapshotToAll(trs, snap) ==
    [i \in DOMAIN trs |->
        [trs[i] EXCEPT !.notes = IF trs[i].id \in DOMAIN snap THEN snap[trs[i].id]
                                 ELSE <<>>]]

\* The snapshot applied: a track named in it takes the snapshot's notes, any
\* other track keeps its own.
ApplySnapshot(trs, snap) ==
    [i \in DOMAIN trs |->
        IF trs[i].id \in DOMAIN snap
           THEN [trs[i] EXCEPT !.notes = snap[trs[i].id]] ELSE trs[i]]

\* useProjectStore.undo()
ProjectUndoSet ==
    IF ~canUndo
       THEN UNCHANGED <<tracks, past, future>>
       ELSE /\ HistoryUndoSet(CurrentSnapshotArg(tracks))
            /\ tracks' = ApplySnapshot(tracks, UndoResult[1])

\* useProjectStore.redo()
ProjectRedoSet ==
    IF ~canRedo
       THEN UNCHANGED <<tracks, past, future>>
       ELSE /\ HistoryRedoSet(CurrentSnapshotArg(tracks))
            /\ tracks' = ApplySnapshot(tracks, RedoResult[1])

\* The arguments the note actions are called with.
NewNoteInput == [pitch |-> 64, start |-> 2, duration |-> 1, velocity |-> 80]
MoveInput == [start |-> 3, pitch |-> 65]
ResizeInput == [duration |-> 2]

NoteIdsOf(trs, trackId) ==
    UNION {{trs[i].notes[j].id : j \in DOMAIN trs[i].notes} :
              i \in {k \in DOMAIN trs : trs[k].id = trackId}}

TrackIdArgs == TrackIdsOf(tracks) \cup {AbsentTrack}
NoteIdArgs(trackId) == NoteIdsOf(tracks, trackId) \cup {AbsentNote}

\* Lists of one or two different note ids, in either order.
NoteIdLists(ids) ==
    {<<x>> : x \in ids} \cup {<<p[1], p[2]>> : p \in {q \in ids \X ids : q[1] # q[2]}}

NotesCountOk(trackId, added) ==
    \A i \in DOMAIN tracks :
        tracks[i].id = trackId => Len(tracks[i].notes) + added <= MaxEditNotes

StoreAddNote(trackId, note) ==
    /\ nextUid <= MaxEditUid
    /\ NotesCountOk(trackId, 1)
    /\ AddNoteSet(trackId, note)
    /\ Logged("addNote", [trackId |-> trackId], <<>>)
    /\ UNCHANGED <<historyVars, outsideEdit>>

StoreRemoveNote(trackId, noteId) ==
    /\ RemoveNoteSet(trackId, noteId)
    /\ Logged("removeNote", [trackId |-> trackId, noteIds |-> <<noteId>>], <<>>)
    /\ UNCHANGED <<historyVars, outsideEdit>>

StoreUpdateNote(trackId, noteId, updates) ==
    /\ UpdateNoteSet(trackId, noteId, updates)
    /\ Logged("updateNote", [trackId |-> trackId, noteIds |-> <<noteId>>], <<>>)
    /\ UNCHANGED <<historyVars, outsideEdit>>

StoreRemoveNotes(trackId, noteIds) ==
    /\ RemoveNotesSet(trackId, noteIds)
    /\ Logged("removeNotes", [trackId |-> trackId, noteIds |-> noteIds], <<>>)
    /\ UNCHANGED <<historyVars, outsideEdit>>

DuplicateNotes(trackId, noteIds) ==
    /\ DuplicateNotesSet(trackId, noteIds)
    /\ LoggedReturning("duplicateNotes", [trackId |-> trackId, noteIds |-> noteIds],
                       DuplicateNotesResult(trackId, noteIds))
    /\ UNCHANGED <<historyVars, outsideEdit>>

StoreDuplicateNotes(trackId, noteIds) ==
    /\ nextUid + Len(DuplicateNotesResult(trackId, noteIds)) - 1 <= MaxEditUid
    /\ NotesCountOk(trackId, Len(DuplicateNotesResult(trackId, noteIds)))
    /\ DuplicateNotes(trackId, noteIds)

\* saveToHistory(): pushState(state.tracks)
SaveToHistory ==
    /\ Len(past) < MaxEditPast
    /\ PushStateSet(tracks)
    /\ Logged("saveToHistory", NoArg, <<>>)
    /\ UNCHANGED <<tracks, nextUid, outsideEdit>>

ProjectUndo ==
    /\ ProjectUndoSet
    /\ Logged("projectUndo", [tracks |-> tracks, future |-> future, acted |-> canUndo,
                            applied |-> UndoResult], <<>>)
    /\ UNCHANGED <<nextUid, outsideEdit>>

ProjectRedo ==
    /\ ProjectRedoSet
    /\ Logged("projectRedo", [tracks |-> tracks, future |-> future, acted |-> canRedo,
                            after |-> lastOp, applied |-> RedoResult], <<>>)
    /\ UNCHANGED <<nextUid, outsideEdit>>

\* PianoRoll.handleGridMouseUp with the draw tool: saveToHistory(), addNote.
UiDrawNote(trackId, note) ==
    /\ Len(past) < MaxEditPast
    /\ nextUid <= MaxEditUid
    /\ NotesCountOk(trackId, 1)
    /\ PushStateSet(tracks)
    /\ AddNoteSet(trackId, note)
    /\ Logged("drawNote", [trackId |-> trackId], <<>>)
    /\ UNCHANGED outsideEdit

\* NoteBlock.handleMouseDown with the eraser tool or the middle button:
\* removeNote.
UiEraseNote(trackId, noteId) ==
    /\ RemoveNoteSet(trackId, noteId)
    /\ Logged("eraseNote", [trackId |-> trackId], <<>>)
    /\ UNCHANGED <<historyVars, outsideEdit>>

\* NoteBlock.handleMouseDown, a mouse move of a drag: updateNote with the
\* new start and pitch.
UiMoveNote(trackId, noteId) ==
    /\ UpdateNoteSet(trackId, noteId, MoveInput)
    /\ Logged("moveNote", [trackId |-> trackId], <<>>)
    /\ UNCHANGED <<historyVars, outsideEdit>>

\* ... a mouse move of a drag of the resize handle: updateNote with the new
\* duration.
UiResizeNote(trackId, noteId) ==
    /\ UpdateNoteSet(trackId, noteId, ResizeInput)
    /\ Logged("resizeNote", [trackId |-> trackId], <<>>)
    /\ UNCHANGED <<historyVars, outsideEdit>>

\* PianoRoll.handleKeyDown, Delete or Backspace with a selection:
\* saveToHistory(), removeNotes.
UiDeleteSelection(trackId, noteIds) ==
    /\ Len(past) < MaxEditPast
    /\ PushStateSet(tracks)
    /\ RemoveNotesSet(trackId, noteIds)
    /\ Logged("deleteSelection", [trackId |-> trackId], <<>>)
    /\ UNCHANGED outsideEdit

\* ... Ctrl+D with a selection: saveToHistory(), duplicateNotes.
UiDuplicateSelection(trackId, noteIds) ==
    /\ Len(past) < MaxEditPast
    /\ nextUid + Len(DuplicateNotesResult(trackId, noteIds)) - 1 <= MaxEditUid
    /\ NotesCountOk(trackId, Len(DuplicateNotesResult(trackId, noteIds)))
    /\ PushStateSet(tracks)
    /\ DuplicateNotesSet(trackId, noteIds)
    /\ Logged("duplicateSelection", [trackId |-> trackId], <<>>)
    /\ UNCHANGED outsideEdit

\* The projects the editing starts from.
EditTrackInputs ==
    {<<[id |-> "t1", muted |-> FALSE, solo |-> FALSE, notes |-> <<HistoryNote(1)>>]>>,
     <<[id |-> "t1", muted |-> FALSE, solo |-> FALSE, notes |-> <<HistoryNote(1)>>],
       [id |-> "t2", muted |-> FALSE, solo |-> FALSE, notes |-> <<>>]>>}

InitEdit == InitWithTracks(EditTrackInputs)

NextEdit ==
    \/ \E trackId \in TrackIdArgs : StoreAddNote(trackId, NewNoteInput)
    \/ \E trackId \in TrackIdArgs : \E noteId \in NoteIdArgs(trackId) :
          StoreRemoveNote(trackId, noteId)
    \/ \E trackId \in TrackIdArgs : \E noteId \in NoteIdArgs(trackId) :
          \E updates \in {MoveInput, ResizeInput} : StoreUpdateNote(trackId, noteId, updates)
    \/ \E trackId \in TrackIdArgs : \E noteIds \in NoteIdLists(NoteIdArgs(trackId)) :
          StoreRemoveNotes(trackId, noteIds)
    \/ \E trackId \in TrackIdArgs : \E noteIds \in NoteIdLists(NoteIdArgs(trackId)) :
          StoreDuplicateNotes(trackId, noteIds)
    \/ SaveToHistory
    \/ ProjectUndo
    \/ ProjectRedo
    \/ \E current \in {Null, CurrentSnapshotArg(tracks)} : HistoryUndo(current)
    \/ \E current \in {Null, CurrentSnapshotArg(tracks)} : HistoryRedo(current)
    \/ \E trackId \in TrackIdsOf(tracks) : UiDrawNote(trackId, NewNoteInput)
    \/ \E trackId \in TrackIdsOf(tracks) : \E noteId \in NoteIdsOf(tracks, trackId) :
          UiEraseNote(trackId, noteId)
    \/ \E trackId \in TrackIdsOf(tracks) : \E noteId \in NoteIdsOf(tracks, trackId) :
          UiMoveNote(trackId, noteId)
    \/ \E trackId \in TrackIdsOf(tracks) : \E noteId \in NoteIdsOf(tracks, trackId) :
          UiResizeNote(trackId, noteId)
    \/ \E trackId \in TrackIdsOf(tracks) :
          \E noteIds \in NoteIdLists(NoteIdsOf(tracks, trackId)) :
             UiDeleteSelection(trackId, noteIds)
    \/ \E trackId \in TrackIdsOf(tracks) :
          \E noteIds \in NoteIdLists(NoteIdsOf(tracks, trackId)) :
             UiDuplicateSelection(trackId, noteIds)

SpecEdit == InitEdit /\ [][NextEdit]_vars

NotesOf(trs) == [i \in DOMAIN trs |-> trs[i].notes]

\* A note action named a track, or notes, the project does not have.
NamesNothing(trs, arg) ==
    \/ arg.trackId \notin TrackIdsOf(trs)
    \/ Range(arg.noteIds) \cap NoteIdsOf(trs, arg.trackId) = {}

\* C16: the no-op conditions are silent. undo() with an empty past and
\* redo() with an empty future return nothing and leave the stacks and the
\* tracks as they were; updateNote, removeNote, removeNotes and
\* duplicateNotes called with a track id or note ids the project does not
\* have leave every track's notes as they were, and duplicateNotes then
\* returns no ids.
C16_NoOpsAreSilent ==
    [][/\ (lastOp' = "undo" /\ past = <<>>) =>
              returned' = Null /\ UNCHANGED <<tracks, past, future>>
       /\ (lastOp' = "redo" /\ future = <<>>) =>
              returned' = Null /\ UNCHANGED <<tracks, past, future>>
       /\ (lastOp' = "projectUndo" /\ past = <<>>) => UNCHANGED <<tracks, past, future>>
       /\ (lastOp' = "projectRedo" /\ future = <<>>) => UNCHANGED <<tracks, past, future>>
       /\ (lastOp' \in {"updateNote", "removeNote", "removeNotes"}
             /\ NamesNothing(tracks, actuals')) =>
              UNCHANGED <<tracks, past, future>>
       /\ (lastOp' = "duplicateNotes" /\ NamesNothing(tracks, actuals')) =>
              returned' = <<>> /\ UNCHANGED <<tracks, past, future>>]_vars

\* removeNotes was called on a track that has notes with an id none of them
\* carries, after an undo found the past empty.
C16_Witness ==
    /\ lastOp = "removeNotes"
    /\ actuals.trackId \in TrackIdsOf(tracks)
    /\ actuals.noteIds = <<AbsentNote>>
    /\ NoteIdsOf(tracks, actuals.trackId) # {}
    /\ past = <<>>

UserEdits ==
    {"drawNote", "eraseNote", "moveNote", "resizeNote", "deleteSelection",
     "duplicateSelection"}

\* C19: every user edit of notes (draw, erase, move, resize, delete
\* selection, duplicate selection) is preceded by a history snapshot: the
\* newest past entry after the edit is the notes as they were before it,
\* which is what a single undo restores.
C19_EditsSnapshotFirst ==
    [][lastOp' \in UserEdits =>
          /\ past' # <<>>
          /\ past'[Len(past')] = Snapshot(tracks)]_vars

(***************************************************************************)
(* duplicateNotes on its own: the project starts with one track whose      *)
(* notes are stored in one of several orders, and duplicateNotes is called *)
(* with lists of note ids in every order.                                  *)
(***************************************************************************)
MaxDupUid == 2

DuplicateTrack(notes) == [id |-> "t1", muted |-> FALSE, solo |-> FALSE, notes |-> notes]

DuplicateTrackInputs ==
    {<<DuplicateTrack(<<HistoryNote(1), HistoryNote(2)>>)>>,
     <<DuplicateTrack(<<HistoryNote(2), HistoryNote(1)>>)>>,
     <<DuplicateTrack(<<HistoryNote(1), HistoryNote(2), HistoryNote(3)>>)>>,
     <<DuplicateTrack(<<HistoryNote(3), HistoryNote(1), HistoryNote(2)>>)>>,
     <<DuplicateTrack(<<HistoryNote(1), HistoryNote(2)>>),
       [id |-> "t2", muted |-> FALSE, solo |-> FALSE, notes |-> <<HistoryNote(3)>>]>>}

InitDuplicate == InitWithTracks(DuplicateTrackInputs)

NextDuplicate ==
    \E trackId \in TrackIdArgs : \E noteIds \in NoteIdLists(NoteIdArgs(trackId)) :
        /\ nextUid + Len(DuplicateNotesResult(trackId, noteIds)) - 1 <= MaxDupUid
        /\ DuplicateNotes(trackId, noteIds)

SpecDuplicate == InitDuplicate /\ [][NextDuplicate]_vars

\* The note of a track that carries the id.
NoteById(trs, trackId, noteId) ==
    CHOOSE n \in Range(FindTrack(trs, trackId).notes) : n.id = noteId

IsCopyOf(copy, original) ==
    /\ copy.pitch = original.pitch
    /\ copy.start = original.start
    /\ copy.duration = original.duration
    /\ copy.velocity = original.velocity

\* C20: duplicateNotes returns the new ids in the order of its noteIds
\* argument, whatever that order is: when every id of the argument names a
\* note of the track, the i-th id returned is the id of the copy of the
\* note the i-th argument names.
C20_IdsInArgumentOrder ==
    [][(/\ lastOp' = "duplicateNotes"
        /\ actuals'.trackId \in TrackIdsOf(tracks)
        /\ Range(actuals'.noteIds) \subseteq NoteIdsOf(tracks, actuals'.trackId)) =>
          /\ Len(returned') = Len(actuals'.noteIds)
          /\ \A i \in DOMAIN returned' :
                IsCopyOf(NoteById(tracks', actuals'.trackId, returned'[i]),
                         NoteById(tracks, actuals'.trackId, actuals'.noteIds[i]))]_vars

Content(n) ==
    [pitch |-> n.pitch, start |-> n.start, duration |-> n.duration,
     velocity |-> n.velocity]

AllNoteIds(trs) == UNION {NoteIdsOf(trs, id) : id \in TrackIdsOf(trs)}

\* The notes a duplicateNotes call left at the end of a track that had
\* `old` notes before and has `new` after.
Appended(old, new) == SubSeq(new, Len(old) + 1, Len(new))

\* C21: duplicateNotes(trackId, noteIds) appends to the track one copy of
\* each of its notes whose id is in noteIds, with the same pitch, start,
\* duration and velocity and a fresh id no note of the project carries; the
\* notes the track had stay as they were and where they were, every other
\* track is unchanged, and the track grows by the number of matching notes.
C21_DuplicateAppendsCopies ==
    [][lastOp' = "duplicateNotes" =>
          /\ Len(tracks') = Len(tracks)
          /\ \A i \in DOMAIN tracks :
                IF tracks[i].id # actuals'.trackId
                   THEN tracks'[i] = tracks[i]
                   ELSE LET old == tracks[i].notes
                            new == tracks'[i].notes
                            matching == {j \in DOMAIN old :
                                            old[j].id \in Range(actuals'.noteIds)}
                        IN  /\ tracks'[i] = [tracks[i] EXCEPT !.notes = new]
                            /\ Len(new) = Len(old) + Cardinality(matching)
                            /\ SubSeq(new, 1, Len(old)) = old
                            /\ \A k \in DOMAIN Appended(old, new) :
                                  /\ Appended(old, new)[k].id \notin AllNoteIds(tracks)
                                  /\ \A l \in DOMAIN Appended(old, new) :
                                        Appended(old, new)[l].id = Appended(old, new)[k].id
                                           => l = k
                            /\ \A j \in matching :
                                  Cardinality({k \in DOMAIN Appended(old, new) :
                                      Content(Appended(old, new)[k]) = Content(old[j])})
                                  = Cardinality({l \in matching :
                                      Content(old[l]) = Content(old[j])})]_vars

\* duplicateNotes copied two notes of a track that has a neighbour.
C21_Witness ==
    /\ lastOp = "duplicateNotes"
    /\ Len(returned) = 2
    /\ Len(tracks) = 2
    /\ Len(tracks[1].notes) = 4

(***************************************************************************)
(* The selection of the UI store, with the piano roll of the selected      *)
(* track: notes are clicked, boxed, erased, deleted and duplicated, tracks *)
(* are selected and removed, edits are undone and redone.                  *)
(***************************************************************************)
EmptySelection == [noteIds |-> <<>>, trackId |-> NoTrack]

\* What a UI store action leaves alone.
outsideUi ==
    <<transportVars, seekCallback, projectVars, engineVars, toneVars, tPosition,
      hookVars>>

\* An addToSelection that appends whatever the selection holds.
AddedToSelectionAlwaysAppends(sel, noteId, trackId) ==
    [noteIds |-> Append(sel.noteIds, noteId), trackId |-> trackId]

\* addToSelection(noteId, trackId): the selection it leaves.
AddedToSelection(sel, noteId, trackId) ==
    IF sel.trackId # NoTrack /\ sel.trackId # trackId
       THEN [noteIds |-> <<noteId>>, trackId |-> trackId]
       ELSE IF noteId \notin Range(sel.noteIds)
               THEN [noteIds |-> Append(sel.noteIds, noteId), trackId |-> trackId]
               ELSE sel

\* noteIds.filter((id) => id !== noteId)
WithoutId(noteIds, noteId) == SelectSeq(noteIds, LAMBDA id : id # noteId)

\* selectedNoteIds.forEach(id => addToSelection(id, track.id))
RECURSIVE AddedAll(_, _, _)
AddedAll(sel, noteIds, trackId) ==
    IF noteIds = <<>> THEN sel
    ELSE AddedAll(AddedToSelection(sel, Head(noteIds), trackId), Tail(noteIds), trackId)

AddToSelection(noteId, trackId) ==
    /\ selection' = AddedToSelection(selection, noteId, trackId)
    /\ LoggedCall("addToSelection",
                  [noteId |-> noteId, trackId |-> trackId, before |-> selection], <<>>)
    /\ UNCHANGED outsideUi

RemoveFromSelection(noteId) ==
    /\ selection' = [selection EXCEPT !.noteIds = WithoutId(@, noteId)]
    /\ LoggedCall("removeFromSelection", [noteId |-> noteId], <<>>)
    /\ UNCHANGED outsideUi

\* The notes the piano roll shows: those of the selected track.
ShownNoteIds == NoteIdsOf(tracks, selectedTrackId)

\* NoteBlock.handleMouseDown with the select tool, no modifier key: a note
\* that is not selected becomes the selection.
UiClickNote(noteId) ==
    /\ selection' = (IF noteId \in Range(selection.noteIds) THEN selection
                     ELSE [noteIds |-> <<noteId>>, trackId |-> selectedTrackId])
    /\ LoggedCall("clickNote", [noteId |-> noteId], <<>>)
    /\ UNCHANGED outsideUi

\* ... with Ctrl or Meta held: the note is toggled.
UiCtrlClickNote(noteId) ==
    /\ selection' =
          (IF noteId \in Range(selection.noteIds)
              THEN (IF WithoutId(selection.noteIds, noteId) # <<>>
                       THEN [noteIds |-> WithoutId(selection.noteIds, noteId),
                             trackId |-> selectedTrackId]
                       ELSE EmptySelection)
              ELSE AddedToSelection(selection, noteId, selectedTrackId))
    /\ LoggedCall("ctrlClickNote", [noteId |-> noteId], <<>>)
    /\ UNCHANGED outsideUi

\* The ids of the track's notes that a selection box covers, in the order
\* of the notes.
BoxedNoteIds(covered) ==
    LET notes == SelectSeq(FindTrack(tracks, selectedTrackId).notes,
                           LAMBDA n : n.id \in covered)
    IN  [i \in DOMAIN notes |-> notes[i].id]

\* One rubber band drag with the select tool. PianoRoll.handleGridMouseDown
\* clears the selection unless Ctrl or Meta is held; handleGridMouseUp adds
\* the covered notes when the key is held, and otherwise makes them the
\* selection if there are any.
UiBoxSelect(covered, ctrlDown, ctrlUp) ==
    LET cleared == IF ctrlDown THEN selection ELSE EmptySelection
    IN  /\ selection' =
              (IF ctrlUp THEN AddedAll(cleared, BoxedNoteIds(covered), selectedTrackId)
               ELSE IF BoxedNoteIds(covered) # <<>>
                       THEN [noteIds |-> BoxedNoteIds(covered), trackId |-> selectedTrackId]
                       ELSE cleared)
        /\ LoggedCall("boxSelect", [covered |-> covered], <<>>)
        /\ UNCHANGED outsideUi

\* PianoRoll.handleKeyDown, Delete or Backspace: saveToHistory(),
\* removeNotes(track.id, selection.noteIds), clearSelection().
KeyDeleteSelection ==
    /\ selection.noteIds # <<>>
    /\ selection.trackId = selectedTrackId
    /\ Len(past) < MaxEditPast
    /\ PushStateSet(tracks)
    /\ RemoveNotesSet(selectedTrackId, selection.noteIds)
    /\ selection' = EmptySelection
    /\ LoggedCall("keyDelete", [noteIds |-> selection.noteIds], <<>>)
    /\ UNCHANGED outsideEdit

\* ... Ctrl+D: saveToHistory(), duplicateNotes(track.id, selection.noteIds),
\* setSelection of the ids it returned.
KeyDuplicateSelection ==
    /\ selection.noteIds # <<>>
    /\ selection.trackId = selectedTrackId
    /\ Len(past) < MaxEditPast
    /\ nextUid + Len(DuplicateNotesResult(selectedTrackId, selection.noteIds)) - 1
          <= MaxEditUid
    /\ NotesCountOk(selectedTrackId,
                    Len(DuplicateNotesResult(selectedTrackId, selection.noteIds)))
    /\ PushStateSet(tracks)
    /\ DuplicateNotesSet(selectedTrackId, selection.noteIds)
    /\ selection' = [noteIds |-> DuplicateNotesResult(selectedTrackId, selection.noteIds),
                     trackId |-> selectedTrackId]
    /\ LoggedCall("keyDuplicate", [noteIds |-> selection.noteIds], <<>>)
    /\ UNCHANGED outsideEdit

\* removeTrack and selectTrack, called from the track list.
TrackListRemoveTrack(id) ==
    /\ RemoveTrackSet(id)
    /\ Logged("removeTrack", id, <<>>)
    /\ UNCHANGED outsideProjectStore

TrackListSelectTrack(id) ==
    /\ selectedTrackId' = id
    /\ UNCHANGED <<bpm, tracks, nextUid, metaVars, colorIndex>>
    /\ Logged("selectTrack", id, <<>>)
    /\ UNCHANGED outsideProjectStore

SelectionTrackInputs ==
    {<<[id |-> "t1", muted |-> FALSE, solo |-> FALSE,
        notes |-> <<HistoryNote(1), HistoryNote(2)>>],
       [id |-> "t2", muted |-> FALSE, solo |-> FALSE, notes |-> <<HistoryNote(3)>>]>>}

InitSelection == InitWithTracks(SelectionTrackInputs)

NextSelection ==
    \/ \E trackId \in TrackIdsOf(tracks) : \E noteId \in NoteIdsOf(tracks, trackId) :
          AddToSelection(noteId, trackId)
    \/ \E noteId \in AllNoteIds(tracks) \cup {AbsentNote} : RemoveFromSelection(noteId)
    \/ \E noteId \in ShownNoteIds : UiClickNote(noteId)
    \/ \E noteId \in ShownNoteIds : UiCtrlClickNote(noteId)
    \/ /\ selectedTrackId \in TrackIdsOf(tracks)
       /\ \E covered \in SUBSET ShownNoteIds : \E ctrlDown, ctrlUp \in BOOLEAN :
             UiBoxSelect(covered, ctrlDown, ctrlUp)
    \/ KeyDeleteSelection
    \/ KeyDuplicateSelection
    \/ /\ selectedTrackId \in TrackIdsOf(tracks)
       /\ UiDrawNote(selectedTrackId, NewNoteInput)
    \/ \E noteId \in ShownNoteIds : UiEraseNote(selectedTrackId, noteId)
    \/ \E id \in TrackIdsOf(tracks) : TrackListRemoveTrack(id)
    \/ \E id \in TrackIdsOf(tracks) : TrackListSelectTrack(id)
    \/ ProjectUndo
    \/ ProjectRedo

SpecSelection == InitSelection /\ [][NextSelection]_vars

\* C22: after any sequence of selection actions and edits (clicks, boxes,
\* addToSelection, removeFromSelection, draw, erase, delete, duplicate,
\* removeTrack, undo, redo) every id of selection.noteIds is the id of a
\* note of the track selection.trackId.
C22_SelectionRefersToNotes ==
    Range(selection.noteIds) \subseteq NoteIdsOf(tracks, selection.trackId)

Occurrences(noteIds, noteId) == Cardinality({i \in DOMAIN noteIds : noteIds[i] = noteId})

\* C23: addToSelection(noteId, X) while the selection is on another track
\* replaces it with {noteIds: [noteId], trackId: X}; while it is on X, or
\* empty, the note is added once and the rest is kept. The selection then
\* is on X, holds noteId once, and holds no id twice.
C23_AddToSelectionOneTrack ==
    [][lastOp' = "addToSelection" =>
          LET noteId == actuals'.noteId
              X == actuals'.trackId
          IN  /\ selection.trackId \notin {NoTrack, X} =>
                    selection' = [noteIds |-> <<noteId>>, trackId |-> X]
              /\ selection.trackId \in {NoTrack, X} =>
                    /\ selection'.trackId = X
                    /\ selection'.noteIds =
                          (IF noteId \in Range(selection.noteIds)
                              THEN selection.noteIds
                              ELSE Append(selection.noteIds, noteId))
              /\ Occurrences(selection'.noteIds, noteId) = 1
              /\ \A id \in Range(selection'.noteIds) :
                    Occurrences(selection'.noteIds, id) = 1]_vars

\* addToSelection was called for a note of one track while a note of the
\* other track was selected.
C23_Witness ==
    /\ lastOp = "addToSelection"
    /\ actuals.before.noteIds # <<>>
    /\ actuals.before.trackId \notin {NoTrack, actuals.trackId}
    /\ selection.noteIds = <<actuals.noteId>>

EventIdsLeft == nextEventId + MaxTracks * MaxTrackNotes + 1 <= MaxPlaybackEventId

PlayRequest ==
    /\ EventIdsLeft
    /\ UiPlay

Renders == RenderNoPlayback \/ RenderPlay \/ RenderStop \/ RenderPause

NextReadiness ==
    \/ AddTrack
    \/ \E id \in TrackIdsOf(tracks) : AddNote(id, NoteCatalog[1])
    \/ PlayRequest
    \/ UiPause
    \/ UiStop
    \/ InitAudioBegin
    \/ AudioStarted
    \/ RenderNoPlayback
    \/ RenderPlay
    \/ RenderStop
    \/ RenderPause
    \/ ClockStep
    \/ DrawFrame

SpecReadiness ==
    /\ InitPlayback
    /\ [][NextReadiness]_vars
    /\ WF_vars(AudioStarted)
    /\ WF_vars(Renders)

\* C25: a play() made before the audio backend is initialised is deferred,
\* not lost: whenever the transport store is playing and the audio is
\* initialised, the schedule is installed and the time base started without
\* a further play action (or the user has stopped or paused meanwhile).
C25_PlayRequestDeferred ==
    (isPlaying /\ isInitializedRef) ~> (tState = "started" \/ ~isPlaying)

(***************************************************************************)
(* The WAV export: exportProject computes the duration to render from the  *)
(* notes of the project, renderToWav the window in seconds.  Note times    *)
(* are fractions of a beat; in the projects of this section start and      *)
(* duration are counted in quarters of a beat.                             *)
(***************************************************************************)
QuartersPerBeat == 4
DefaultExportBeats == 16
ReleaseTail == 2000

\* Math.ceil of a number of quarter beats, in beats.
CeilBeats(quarters) == (quarters + QuartersPerBeat - 1) \div QuartersPerBeat

\* maxEnd: the largest note.start + note.duration, 0 without notes.
RECURSIVE MaxEndOfNotes(_, _)
MaxEndOfNotes(notes, maxEnd) ==
    IF notes = <<>> THEN maxEnd
    ELSE MaxEndOfNotes(Tail(notes),
                       IF Head(notes).start + Head(notes).duration > maxEnd
                          THEN Head(notes).start + Head(notes).duration ELSE maxEnd)

RECURSIVE MaxEndOfTracks(_, _)
MaxEndOfTracks(trs, maxEnd) ==
    IF trs = <<>> THEN maxEnd
    ELSE MaxEndOfTracks(Tail(trs), MaxEndOfNotes(Head(trs).notes, maxEnd))

\* duration = Math.max(16, Math.ceil(maxEnd)), in beats
ExportDuration(trs) == Max(DefaultExportBeats, CeilBeats(MaxEndOfTracks(trs, 0)))

\* renderToWav: durationSeconds = beatsToSeconds(duration, bpm) + 2, in
\* milliseconds
DurationSeconds(duration, tempo) == beatsToSeconds(duration, tempo) + ReleaseTail

ExportProject ==
    /\ LoggedReturning("exportProject", [tracks |-> tracks, bpm |-> bpm],
                       [duration |-> ExportDuration(tracks),
                        durationSeconds |-> DurationSeconds(ExportDuration(tracks), bpm)])
    /\ UNCHANGED <<transportVars, seekCallback, projectVars, engineVars, toneVars,
                   tPosition, hookVars>>

ExportNote(id, start, duration) ==
    [id |-> id, pitch |-> 60, start |-> start, duration |-> duration, velocity |-> 80]

\* Notes ending at beat 1, at beat 3.5, at beat 16, at beat 20 and at beat
\* 20.25.
ExportNotes ==
    {ExportNote(1, 0, 4), ExportNote(2, 8, 6), ExportNote(3, 60, 4),
     ExportNote(4, 76, 4), ExportNote(5, 80, 1)}

ExportNoteLists ==
    {<<>>} \cup {<<n>> : n \in ExportNotes}
    \cup {<<p[1], p[2]>> : p \in {q \in ExportNotes \X ExportNotes : q[1] # q[2]}}

ExportTrackInputs ==
    {<<[id |-> "t1", muted |-> FALSE, solo |-> FALSE, notes |-> ns]>> :
        ns \in ExportNoteLists}
    \cup {<<[id |-> "t1", muted |-> FALSE, solo |-> FALSE, notes |-> ns],
            [id |-> "t2", muted |-> mu, solo |-> FALSE, notes |-> <<n>>]>> :
             ns \in {<<>>, <<ExportNote(1, 0, 4)>>}, mu \in BOOLEAN,
             n \in {ExportNote(2, 8, 6), ExportNote(5, 80, 1)}}

InitExport == InitWithTracks(ExportTrackInputs)

NextExport ==
    \/ \E tempo \in {60, DefaultBpm, MaxBpm} : StoreSetBpm(tempo)
    \/ ExportProject

SpecExport == InitExport /\ [][NextExport]_vars

\* The end of every note of the project, in quarters of a beat.
NoteEnds(trs) ==
    UNION {{trs[i].notes[j].start + trs[i].notes[j].duration : j \in DOMAIN trs[i].notes} :
              i \in DOMAIN trs}

\* C26: the export duration is 16 beats when no track has a note, and
\* otherwise the ceiling of the latest note end over all tracks, also when
\* that lies before beat 16; the rendered window is that duration converted
\* with beatsToSeconds at the project's bpm, plus the 2 second tail.
C26_ExportDuration ==
    lastOp = "exportProject" =>
        /\ returned.duration =
              (IF NoteEnds(actuals.tracks) = {} THEN DefaultExportBeats
               ELSE CHOOSE b \in 0 .. 32 :
                       /\ \A e \in NoteEnds(actuals.tracks) : e <= b * QuartersPerBeat
                       /\ \E e \in NoteEnds(actuals.tracks) : e > (b - 1) * QuartersPerBeat)
        /\ returned.durationSeconds =
              (returned.duration * 60000) \div actuals.bpm + 2000

(***************************************************************************)
(* The colour palette with export and import: tracks are added and         *)
(* removed, the project is exported to a file and the file imported again. *)
(***************************************************************************)
\* exportProject(): the project as it is written to a file.
ExportedProject ==
    [name |-> projectName, bpm |-> bpm, timeSignature |-> timeSignature,
     tracks |-> tracks]

NextPalette ==
    \/ StoreAddTrack
    \/ \E id \in TrackIdsOf(tracks) : StoreRemoveTrack(id)
    \/ \E id \in TrackIdsOf(tracks) : SelectTrack(id)
    \/ ImportProject(ExportedProject)
    \/ \E project \in ProjectInputs : ImportProject(project)
    \/ ResetProject

SpecPalette == InitProject /\ [][NextPalette]_vars

TrackColors(trs) == {trs[i].color : i \in DOMAIN trs}

\* C27: importProject of a project with N tracks sets the palette index to
\* N, a track added afterwards does not get the colour of a track the
\* project has, and each track of the project has a colour no other track
\* has.
C27_ColoursStayDistinct ==
    /\ [](\A i, j \in DOMAIN tracks : i # j => tracks[i].color # tracks[j].color)
    /\ [][lastOp' = "importProject" => colorIndex' = Len(tracks')]_vars
    /\ [][lastOp' = "addTrack" =>
             tracks'[Len(tracks')].color \notin TrackColors(tracks)]_vars

(***************************************************************************)
(* The loop during playback: notes are placed before and at the loop end,  *)
(* the loop is switched on and its region dragged, and the user plays,     *)
(* pauses, stops and seeks while the clock of the transport runs.          *)
(***************************************************************************)
NextLoop ==
    \/ AddTrack
    \/ \E id \in TrackIdsOf(tracks) : \E k \in DOMAIN NoteCatalog :
          AddNote(id, NoteCatalog[k])
    \/ PlayRequest
    \/ UiPause
    \/ UiStop
    \/ \E beat \in {0, MaxBeat} : UiSeek(beat)
    \/ UiToggleLoop
    \/ \E end \in {1, MaxBeat} : UiSetLoopRegion(0, end)
    \/ InitAudioBegin
    \/ AudioStarted
    \/ RenderNoPlayback
    \/ RenderPlay
    \/ RenderStop
    \/ RenderPause
    \/ ClockStep
    \/ DrawFrame

SpecLoop == InitPlayback /\ [][NextLoop]_vars

\* The note events whose trigger fires in a step of the clock.
FiredNotes == {e \in timeline : e.kind = "note" /\ e.id \in Range(actuals')}

\* C28: while the loop is enabled and engaged on the running transport, the
\* position the clock processes lies before loop.end and no note whose start
\* is at or beyond loop.end is triggered, whatever play, seek and loop
\* actions came before.
C28_LoopClipsNotes ==
    [][(lastOp' = "clock" /\ loop.enabled /\ tLoop.enabled) =>
          /\ tPosition' - 1 < loop.end
          /\ \A e \in FiredNotes : e.beat < loop.end]_vars

\* The same with the loop region the transport was given when the schedule
\* was installed in place of the region of the store.
LoopAsInstalledClipsNotes ==
    [][(lastOp' = "clock" /\ tLoop.enabled) =>
          /\ tPosition' - 1 < tLoop.end
          /\ \A e \in FiredNotes : e.beat < tLoop.end]_vars

(***************************************************************************)
(* The order of the triggers: a project whose notes share start times,     *)
(* within a track and across tracks, and were not inserted in the order of *)
(* their starts, is played, paused, stopped, looped and sought.            *)
(***************************************************************************)
MaxTriggerEventId == 12

TriggerNote(id, start) ==
    [id |-> id, pitch |-> 69, start |-> start, duration |-> 1, velocity |-> 100]

TriggerTrack(id, notes) ==
    [id |-> id, muted |-> FALSE, solo |-> FALSE, color |-> 0, notes |-> notes]

TriggerTrackInputs ==
    {<<TriggerTrack("t1", <<TriggerNote(1, 1), TriggerNote(2, 0), TriggerNote(3, 1)>>),
       TriggerTrack("t2", <<TriggerNote(4, 1), TriggerNote(5, 0)>>)>>,
     <<TriggerTrack("t2", <<TriggerNote(4, 1), TriggerNote(5, 0)>>),
       TriggerTrack("t1", <<TriggerNote(1, 1), TriggerNote(2, 0), TriggerNote(3, 1)>>)>>}

InitTriggers == InitLoaded(TriggerTrackInputs, TRUE)

TriggerPlayRequest ==
    /\ nextEventId + CountActiveNotes(tracks, 1) <= MaxTriggerEventId
    /\ UiPlay

NextTriggers ==
    \/ TriggerPlayRequest
    \/ UiPause
    \/ UiStop
    \/ \E beat \in {0, MaxBeat} : UiSeek(beat)
    \/ UiToggleLoop
    \/ UiSetLoopRegion(0, MaxBeat)
    \/ InitAudioBegin
    \/ AudioStarted
    \/ RenderNoPlayback
    \/ RenderPlayUpTo(MaxTriggerEventId)
    \/ RenderStop
    \/ RenderPause
    \/ ClockStep
    \/ DrawFrame

SpecTriggers == InitTriggers /\ [][NextTriggers]_vars

\* The event of the timeline with this id.
EventById(id) == CHOOSE e \in timeline : e.id = id

\* The place of a track in the project, and of a note in its track.
TrackPlace(trackId) == CHOOSE i \in DOMAIN tracks : tracks[i].id = trackId
NotePlace(trackId, noteId) ==
    CHOOSE j \in DOMAIN tracks[TrackPlace(trackId)].notes :
        tracks[TrackPlace(trackId)].notes[j].id = noteId

\* Event e comes before event f in the iteration of scheduleNotes.
IteratedBefore(e, f) ==
    \/ TrackPlace(e.trackId) < TrackPlace(f.trackId)
    \/ /\ e.trackId = f.trackId
       /\ NotePlace(e.trackId, e.noteId) < NotePlace(f.trackId, f.noteId)

\* C29: within one schedule installation the triggers fire in nondecreasing
\* order of start time: a step of the clock fires exactly the triggers of the
\* installed schedule that start at the position it processes, and the clock
\* moves forward unless the loop wraps or the user seeks.  Triggers with the
\* same time fire in the iteration order of their tracks and, within one
\* track, in the insertion order of the notes.
C29_TriggersInOrder ==
    /\ [][lastOp' = "clock" =>
             /\ Range(actuals') =
                   {e.id : e \in {f \in timeline : /\ f.kind = "note"
                                                   /\ f.id \in Range(scheduledEvents)
                                                   /\ f.beat = tPosition' - 1}}
             /\ \A i, j \in DOMAIN actuals' :
                   i < j => IteratedBefore(EventById(actuals'[i]), EventById(actuals'[j]))]_vars
    /\ [][(lastOp' = "clock" /\ ~(tLoop.enabled /\ tPosition >= tLoop.end)) =>
             tPosition' - 1 = tPosition]_vars

\* Three triggers fired at one time: two of one track and one of the other.
C29_Witness ==
    /\ lastOp = "clock"
    /\ Len(actuals) = 3
    /\ \E i, j \in DOMAIN actuals :
          /\ i < j
          /\ EventById(actuals[i]).trackId = EventById(actuals[j]).trackId
    /\ \E i, j \in DOMAIN actuals :
          EventById(actuals[i]).trackId # EventById(actuals[j]).trackId

(***************************************************************************)
(* The transport store again: setCurrentBeat.                              *)
(***************************************************************************)
\* C30: setCurrentBeat(beat) stores loop.start when the loop is enabled and
\* beat >= loop.end, and beat itself in every other case: loop disabled, or
\* beat < loop.end, a beat before loop.start included.  It changes neither
\* isPlaying nor isPaused nor the loop.
C30_SetCurrentBeatWraps ==
    [][lastOp' = "setCurrentBeat" =>
          /\ (loop.enabled /\ actuals' >= loop.end) => currentBeat' = loop.start
          /\ ~loop.enabled => currentBeat' = actuals'
          /\ actuals' < loop.end => currentBeat' = actuals'
          /\ UNCHANGED <<isPlaying, isPaused, loop>>]_vars

\* setCurrentBeat was called with a beat beyond the end of an enabled loop
\* that does not start at 0, while playing: the beat stored is the loop start.
C30_Witness ==
    /\ lastOp = "setCurrentBeat"
    /\ loop.enabled
    /\ isPlaying
    /\ loop.start > 0
    /\ actuals > loop.end
    /\ currentBeat = loop.start

(***************************************************************************)
(* The document and its history: between a snapshot and the undo that      *)
(* applies it, tracks are added, removed, muted and selected, the tempo is *)
(* set, and another project is imported or the project is reset.           *)
(***************************************************************************)
StoreToggleTrackMute(id) ==
    /\ ToggleTrackMuteSet(id)
    /\ Logged("toggleTrackMute", id, <<>>)
    /\ UNCHANGED outsideProjectStore

\* Project files: one whose first track has the id of a track of the project
\* loaded at the start, and one that shares no id with it.
DocumentProjectInputs ==
    {[name |-> "Song", bpm |-> MaxBpm, timeSignature |-> <<3, 4>>,
      tracks |-> <<[id |-> "t1", muted |-> FALSE, solo |-> FALSE, color |-> 0,
                    notes |-> <<HistoryNote(2)>>], FileTrack>>],
     [name |-> "Song", bpm |-> MaxBpm, timeSignature |-> <<3, 4>>,
      tracks |-> <<FileTrack>>]}

InitDocument == InitWithTracks(EditTrackInputs)

NextDocument ==
    \/ StoreAddTrack
    \/ \E id \in TrackIdsOf(tracks) : StoreRemoveTrack(id)
    \/ \E id \in TrackIdsOf(tracks) : SelectTrack(id)
    \/ tracks # <<>> /\ StoreToggleTrackMute(tracks[1].id)
    \/ \E project \in DocumentProjectInputs : ImportProject(project)
    \/ ResetProject
    \/ \E trackId \in TrackIdsOf(tracks) : StoreAddNote(trackId, NewNoteInput)
    \/ \E trackId \in TrackIdsOf(tracks) : \E noteId \in NoteIdsOf(tracks, trackId) :
          StoreRemoveNote(trackId, noteId)
    \/ SaveToHistory
    \/ ProjectUndo
    \/ ProjectRedo

SpecDocument == InitDocument /\ [][NextDocument]_vars

\* A track with its notes left out.
WithoutNotes(track) == [track EXCEPT !.notes = <<>>]

\* C31: undo() and redo() change only the notes of tracks: the tracks stay
\* the same tracks in the same order with every field but notes as it was,
\* bpm, time signature, project name and selected track stay as they were,
\* and a track the applied snapshot has no entry for keeps its notes.
C31_UndoRedoChangeOnlyNotes ==
    [][lastOp' \in {"projectUndo", "projectRedo"} =>
          /\ Len(tracks') = Len(tracks)
          /\ \A i \in DOMAIN tracks : WithoutNotes(tracks'[i]) = WithoutNotes(tracks[i])
          /\ UNCHANGED <<bpm, timeSignature, projectName, selectedTrackId>>
          /\ \A i \in DOMAIN tracks :
                (actuals'.applied = Null \/ tracks[i].id \notin DOMAIN actuals'.applied[1])
                   => tracks'[i].notes = tracks[i].notes]_vars

\* An undo applied a snapshot that names one track of the project and not
\* the other: the first got other notes, the second kept the notes it has,
\* and one of the tracks is muted.
C31_Witness ==
    /\ lastOp = "projectUndo"
    /\ actuals.acted
    /\ \E i, j \in DOMAIN tracks :
          /\ tracks[i].id \in DOMAIN actuals.applied[1]
          /\ tracks[i].notes # actuals.tracks[i].notes
          /\ tracks[j].id \notin DOMAIN actuals.applied[1]
          /\ tracks[j].notes # <<>>
    /\ \E i \in DOMAIN tracks : tracks[i].muted

\* C39: after importProject or resetProject, undo() and redo() leave the
\* notes of the newly loaded project as they are: a snapshot taken in the
\* project loaded before is not applied to the tracks of the new one.
C39_HistoryStaysWithItsProject ==
    [][(lastOp \in {"importProject", "resetProject"}
        /\ lastOp' \in {"projectUndo", "projectRedo"}) => tracks' = tracks]_vars

(***************************************************************************)
(* The voice registry on its own: createTrackSynth, updateTrackSynth and   *)
(* disposeTrackSynth called in any order for two track ids, and the        *)
(* guarded creation of engine.ts and of the preview notes.                 *)
(***************************************************************************)
MaxOrphans == 2

VoiceTrackIds == {"t1", "t2"}

\* createTrackSynth(track): a new voice is built and trackSynths.set puts it
\* in the registry; a voice the registry held for the id is replaced there
\* and not disposed.
CreateTrackSynthSet(id) ==
    /\ trackSynths' = trackSynths \cup {id}
    /\ orphanVoices' = (IF id \in trackSynths THEN Append(orphanVoices, id)
                        ELSE orphanVoices)

\* updateTrackSynth(track): creates the voice if there is none, else sets
\* the parameters of the one there is.
UpdateTrackSynthSet(id) ==
    IF id \notin trackSynths THEN CreateTrackSynthSet(id)
    ELSE UNCHANGED <<trackSynths, orphanVoices>>

\* disposeTrackSynth(trackId): disposes the registered voice, if any, and
\* deletes the entry.
DisposeTrackSynthSet(id) ==
    /\ trackSynths' = trackSynths \ {id}
    /\ UNCHANGED orphanVoices

\* if (!getTrackSynth(id)) createTrackSynth(track)
EnsureTrackSynthSet(id) ==
    IF id \notin trackSynths THEN CreateTrackSynthSet(id)
    ELSE UNCHANGED <<trackSynths, orphanVoices>>

outsideVoices ==
    <<transportVars, seekCallback, projectVars, isInitialized, scheduledEvents,
      pendingPreviews, toneVars, tPosition, hookVars>>

CreateTrackSynth(id) ==
    /\ Len(orphanVoices) < MaxOrphans
    /\ CreateTrackSynthSet(id)
    /\ LoggedVoice("createTrackSynth", [id |-> id, had |-> id \in trackSynths])
    /\ UNCHANGED outsideVoices

UpdateTrackSynth(id) ==
    /\ UpdateTrackSynthSet(id)
    /\ LoggedVoice("updateTrackSynth", [id |-> id, had |-> id \in trackSynths])
    /\ UNCHANGED outsideVoices

DisposeTrackSynth(id) ==
    /\ DisposeTrackSynthSet(id)
    /\ LoggedVoice("disposeTrackSynth", [id |-> id, had |-> id \in trackSynths])
    /\ UNCHANGED outsideVoices

EnsureTrackSynth(id) ==
    /\ EnsureTrackSynthSet(id)
    /\ LoggedVoice("ensureTrackSynth", [id |-> id, had |-> id \in trackSynths])
    /\ UNCHANGED outsideVoices

InitVoices ==
    /\ TransportInit
    /\ seekCallback = FALSE
    /\ RestInit

NextVoices ==
    \/ \E id \in VoiceTrackIds : CreateTrackSynth(id)
    \/ \E id \in VoiceTrackIds : UpdateTrackSynth(id)
    \/ \E id \in VoiceTrackIds : DisposeTrackSynth(id)
    \/ \E id \in VoiceTrackIds : EnsureTrackSynth(id)

SpecVoices == InitVoices /\ [][NextVoices]_vars

\* C32: creation and disposal are idempotent on the registry: creating a
\* voice for a track id that has one creates no second voice, disposing an
\* id that has none changes nothing, and so every voice that is not disposed
\* is the one the registry holds for its track id.
C32_VoicesIdempotent ==
    /\ [](orphanVoices = <<>>)
    /\ [][(lastOp' \in {"createTrackSynth", "updateTrackSynth", "ensureTrackSynth"}
           /\ actuals'.had) => UNCHANGED <<trackSynths, orphanVoices>>]_vars
    /\ [][(lastOp' = "disposeTrackSynth" /\ ~actuals'.had) =>
             UNCHANGED <<trackSynths, orphanVoices>>]_vars

(***************************************************************************)
(* Preview notes and the removal of tracks: a mouse press in the piano     *)
(* roll plays a preview note, which waits for Tone.start() while the audio *)
(* context is not running, and tracks are removed meanwhile.               *)
(***************************************************************************)
\* playPreviewNote up to its await: the piano roll shows the selected
\* track; with the context not running the rest waits for Tone.start().
PreviewBegin ==
    /\ ~isInitialized
    /\ ~renderPending
    /\ selectedTrackId \in TrackIdsOf(tracks)
    /\ selectedTrackId \notin pendingPreviews
    /\ pendingPreviews' = pendingPreviews \cup {selectedTrackId}
    /\ UNCHANGED <<trackSynths, orphanVoices>>
    /\ LoggedVoice("previewBegin", selectedTrackId)
    /\ UNCHANGED <<transportVars, seekCallback, projectVars, isInitialized,
                   scheduledEvents, toneVars, tPosition, hookVars>>

\* playPreviewNote with the context running: no await, the voice is created
\* if the registry has none for the track the piano roll shows.
PreviewNow ==
    /\ isInitialized
    /\ ~renderPending
    /\ selectedTrackId \in TrackIdsOf(tracks)
    /\ EnsureTrackSynthSet(selectedTrackId)
    /\ UNCHANGED pendingPreviews
    /\ LoggedVoice("previewNow", selectedTrackId)
    /\ UNCHANGED <<transportVars, seekCallback, projectVars, isInitialized,
                   scheduledEvents, toneVars, tPosition, hookVars>>

\* Tone.start() has resolved and playPreviewNote goes on with the track of
\* its closure: the voice is created if the registry has none for it.
PreviewResume(id) ==
    /\ id \in pendingPreviews
    /\ ~renderPending
    /\ pendingPreviews' = pendingPreviews \ {id}
    /\ EnsureTrackSynthSet(id)
    /\ LoggedVoice("previewResume", id)
    /\ UNCHANGED <<transportVars, seekCallback, projectVars, isInitialized,
                   scheduledEvents, toneVars, tPosition, hookVars>>

NextPreview ==
    \/ AddTrack
    \/ \E id \in TrackIdsOf(tracks) : RemoveTrack(id)
    \/ \E id \in TrackIdsOf(tracks) : AddNote(id, NoteCatalog[1])
    \/ PlayRequest
    \/ UiStop
    \/ PreviewBegin
    \/ PreviewNow
    \/ \E id \in pendingPreviews : PreviewResume(id)
    \/ InitAudioBegin
    \/ AudioStarted
    \/ RenderNoPlayback
    \/ RenderPlay
    \/ RenderStop
    \/ ClockStep
    \/ DrawFrame

SpecPreview == InitPlayback /\ [][NextPreview]_vars

\* C33: once a track is removed and the voice sync for the change has run,
\* the registry holds no voice for its id, in every interleaving with
\* preview notes waiting for Tone.start() and with the triggers already
\* scheduled for the track: these fire on no voice of a removed track.
C33_RemovedTrackHasNoVoice ==
    /\ [](~renderPending => trackSynths \subseteq TrackIdsOf(tracks))
    /\ [][lastOp' = "clock" =>
             \A e \in FiredNotes : e.trackId \in TrackIdsOf(tracks)]_vars

(***************************************************************************)
(* The offline renderer beside the realtime scheduler: renderToWav and     *)
(* scheduleNotes are run on the same project, for every project of         *)
(* TrackInputs x BpmValues.                                                *)
(***************************************************************************)
\* A renderer that leaves the solo rule out.
OfflineActiveIgnoresSolo(track, trs) == ~track.muted

\* recorder.ts: if (track.muted) return; if (hasSolo && !track.solo) return;
OfflineActive(track, trs) ==
    LET hasSolo == \E i \in DOMAIN trs : trs[i].solo
    IN  ~(track.muted \/ (hasSolo /\ ~track.solo))

\* recorder.ts: transport.schedule(callback, startTime) for one note, the
\* callback triggering the synth built for the note's track.
OfflineEvent(track, note, tempo) ==
    [trackId |-> track.id, noteId |-> note.id,
     time |-> beatsToSeconds(note.start, tempo),
     frequency |-> midiToFrequency(note.pitch),
     duration |-> beatsToSeconds(note.duration, tempo),
     velocity |-> note.velocity]

\* The note events Tone.Offline's callback registers.
OfflineEvents(trs, tempo) ==
    UNION {{OfflineEvent(trs[i], trs[i].notes[j], tempo) : j \in DOMAIN trs[i].notes} :
              i \in {k \in DOMAIN trs : OfflineActive(trs[k], trs)}}

\* renderToWav({tracks, bpm, duration}): the offline context is its own; the
\* stores, the engine and the transport are not touched.
RenderToWav ==
    /\ LoggedReturning("renderToWav", [tracks |-> tracks, bpm |-> bpm],
                       OfflineEvents(tracks, bpm))
    /\ UNCHANGED <<transportVars, seekCallback, projectVars, engineVars, toneVars,
                   tPosition, hookVars>>

NextRender ==
    \/ EngScheduleNotes(tracks, loop, bpm)
    \/ EngClearScheduledNotes
    \/ RenderToWav

SpecRender == InitSchedule /\ [][NextRender]_vars

\* What a realtime note event is compared by.
RenderKey(e) ==
    [trackId |-> e.trackId, noteId |-> e.noteId, time |-> e.time,
     frequency |-> e.frequency, duration |-> e.duration, velocity |-> e.velocity]

\* C34: for every list of tracks and every bpm the offline renderer
\* registers the note events the realtime scheduler registers: the notes of
\* the same active tracks, each with the same start time, duration,
\* frequency and velocity.
C34_OfflineMatchesRealtime ==
    lastOp = "renderToWav" =>
        /\ LET trig == NoteTriggers(actuals.tracks, 1, actuals.bpm)
           IN  returned = {RenderKey(trig[i]) : i \in DOMAIN trig}
        /\ scheduledEvents # <<>> =>
              returned = {RenderKey(e) : e \in NoteEventsOf(timeline)}

\* A project with a solo'd track and another track that is neither muted
\* nor solo'd, each with a note, rendered at 60 bpm while its schedule is
\* installed: one event, the solo'd track's.
C34_Witness ==
    /\ lastOp = "renderToWav"
    /\ scheduledEvents # <<>>
    /\ bpm = 60
    /\ \E i, j \in DOMAIN tracks :
          /\ tracks[i].solo /\ ~tracks[i].muted /\ Len(tracks[i].notes) = 1
          /\ ~tracks[j].solo /\ ~tracks[j].muted /\ Len(tracks[j].notes) = 1
          /\ returned = {OfflineEvent(tracks[i], tracks[i].notes[1], 60)}

(***************************************************************************)
(* The grid: gridSnapToBeats and snapToGrid.  Beats are counted in units   *)
(* of 1/64 beat, half of the finest grid step, so that every grid line and *)
(* every point halfway between two grid lines is a whole number.           *)
(***************************************************************************)
MaxSnapBeat == 160

BeatUnits == 2 ^ 6

GridSnaps == {"1/4", "1/8", "1/16", "1/32"}

\* The beats snapToGrid is called with: negative ones too, as a note dragged
\* to the left of the grid has a negative raw start.
SnapBeats == (0 - MaxSnapBeat) .. MaxSnapBeat

gridSnapToBeats(snap) ==
    CASE snap = "1/4" -> BeatUnits
      [] snap = "1/8" -> BeatUnits \div 2
      [] snap = "1/16" -> BeatUnits \div 4
      [] snap = "1/32" -> BeatUnits \div 8
      [] OTHER -> BeatUnits

\* Math.round(num / den) for den > 0: floor(num / den + 1/2), a value
\* halfway between two integers going to the larger one.
MathRound(num, den) == (2 * num + den) \div (2 * den)

\* A snap to the grid line after the beat.
snapToNextLine(beat, snap) ==
    (beat \div gridSnapToBeats(snap) + 1) * gridSnapToBeats(snap)

\* Math.round(beat / snapValue) * snapValue
snapToGrid(beat, snap) ==
    MathRound(beat, gridSnapToBeats(snap)) * gridSnapToBeats(snap)

outsideGrid ==
    <<transportVars, seekCallback, projectVars, engineVars, toneVars, tPosition,
      hookVars>>

SnapToGrid(beat, snap) ==
    /\ LoggedReturning("snapToGrid", [beat |-> beat, snap |-> snap],
                       snapToGrid(beat, snap))
    /\ UNCHANGED outsideGrid

\* snapToGrid applied to the value the last call returned, with its snap.
SnapAgain ==
    /\ lastOp = "snapToGrid"
    /\ LoggedReturning("snapAgain", [beat |-> returned, snap |-> actuals.snap,
                                     first |-> actuals.beat],
                       snapToGrid(returned, actuals.snap))
    /\ UNCHANGED outsideGrid

NextSnap ==
    \/ \E beat \in SnapBeats, snap \in GridSnaps : SnapToGrid(beat, snap)
    \/ SnapAgain

SpecSnap == InitTransport /\ [][NextSnap]_vars

\* C35: snapToGrid is idempotent: snapping a snapped beat again with the
\* same grid snap returns it unchanged, for each of the four grid snaps.
C35_SnapIdempotent ==
    lastOp = "snapAgain" => returned = actuals.beat

\* A beat between two grid lines of the 1/32 grid, left of the origin, was
\* snapped and the result snapped again.
C35_Witness ==
    /\ lastOp = "snapAgain"
    /\ actuals.snap = "1/32"
    /\ actuals.first < 0
    /\ actuals.first # actuals.beat
    /\ returned = actuals.beat

Abs(x) == IF x < 0 THEN 0 - x ELSE x

\* C36: snapToGrid returns the multiple of the grid step nearest to the
\* beat, and for a beat exactly halfway between two multiples, positive or
\* negative, the multiple a standard tie rule gives: the even multiple, or
\* the one further from zero.
C36_SnapNearestWithTieRule ==
    lastOp = "snapToGrid" =>
        LET step == gridSnapToBeats(actuals.snap)
            beat == actuals.beat
        IN  /\ returned % step = 0
            /\ 2 * Abs(returned - beat) <= step
            /\ 2 * Abs(returned - beat) = step =>
                  \/ (returned \div step) % 2 = 0
                  \/ Abs(returned) > Abs(beat)

(***************************************************************************)
(* updateNotes beside updateNote: lists of up to two updates, also two for *)
(* one note, applied to a track with two notes.                            *)
(***************************************************************************)
\* new Map(noteUpdates.map(u => [u.noteId, u.updates])).get(noteId): the
\* updates of the last entry that names the note, or nothing.
RECURSIVE UpdateMapGet(_, _)
UpdateMapGet(noteUpdates, noteId) ==
    IF noteUpdates = <<>> THEN Null
    ELSE LET last == noteUpdates[Len(noteUpdates)]
         IN  IF last.noteId = noteId THEN <<last.updates>>
             ELSE UpdateMapGet(SubSeq(noteUpdates, 1, Len(noteUpdates) - 1), noteId)

\* t.notes.map((n) => { const updates = updateMap.get(n.id);
\*                      return updates ? { ...n, ...updates } : n; })
UpdatedNotesByMap(notes, noteUpdates) ==
    [i \in DOMAIN notes |->
        IF UpdateMapGet(noteUpdates, notes[i].id) = Null THEN notes[i]
        ELSE Merged(notes[i], UpdateMapGet(noteUpdates, notes[i].id)[1])]

UpdateNotesSet(trackId, noteUpdates) ==
    /\ tracks' = [i \in DOMAIN tracks |->
                     IF tracks[i].id = trackId
                        THEN [tracks[i] EXCEPT !.notes = UpdatedNotesByMap(@, noteUpdates)]
                        ELSE tracks[i]]
    /\ UNCHANGED nextUid

StoreUpdateNotes(trackId, noteUpdates) ==
    /\ UpdateNotesSet(trackId, noteUpdates)
    /\ Logged("updateNotes", [trackId |-> trackId, noteUpdates |-> noteUpdates], <<>>)
    /\ UNCHANGED <<historyVars, outsideEdit>>

UpdateTrackInputs ==
    {<<[id |-> "t1", muted |-> FALSE, solo |-> FALSE,
        notes |-> <<HistoryNote(1), HistoryNote(2)>>],
       [id |-> "t2", muted |-> FALSE, solo |-> FALSE, notes |-> <<HistoryNote(3)>>]>>}

\* The entries a list of updates is made of.
NoteUpdateEntries(trackId) ==
    {[noteId |-> n, updates |-> u] :
        n \in NoteIdArgs(trackId), u \in {[start |-> 3], [pitch |-> 65], ResizeInput}}

NoteUpdateLists(trackId) ==
    {<<>>} \cup {<<e>> : e \in NoteUpdateEntries(trackId)}
           \cup {<<p[1], p[2]>> : p \in NoteUpdateEntries(trackId) \X NoteUpdateEntries(trackId)}

InitUpdates == InitWithTracks(UpdateTrackInputs)

NextUpdates ==
    \/ \E trackId \in TrackIdArgs : \E noteUpdates \in NoteUpdateLists(trackId) :
          StoreUpdateNotes(trackId, noteUpdates)
    \/ \E trackId \in TrackIdArgs : \E noteId \in NoteIdArgs(trackId) :
          StoreUpdateNote(trackId, noteId, MoveInput)

SpecUpdates == InitUpdates /\ [][NextUpdates]_vars

\* The notes after updateNote was called for each entry in list order.
RECURSIVE UpdatedOneByOne(_, _)
UpdatedOneByOne(notes, noteUpdates) ==
    IF noteUpdates = <<>> THEN notes
    ELSE UpdatedOneByOne(UpdatedNotes(notes, Head(noteUpdates).noteId,
                                      Head(noteUpdates).updates),
                         Tail(noteUpdates))

\* C38: updateNotes applies every entry of its list in one transition: the
\* notes of the track become what updateNote called for each entry in list
\* order makes them, also when two entries name one note; notes not named
\* and the other tracks stay as they are.
C38_UpdateNotesIsUpdateNoteRepeated ==
    [][lastOp' = "updateNotes" =>
          /\ Len(tracks') = Len(tracks)
          /\ \A i \in DOMAIN tracks :
                tracks'[i] =
                   (IF tracks[i].id = actuals'.trackId
                       THEN [tracks[i] EXCEPT
                                !.notes = UpdatedOneByOne(@, actuals'.noteUpdates)]
                       ELSE tracks[i])]_vars

(***************************************************************************)
(* An editing session on a fixed set of tracks: every note edit is         *)
(* preceded by saveToHistory, as the piano roll does it, and undo and redo *)
(* walk the states the session went through.                               *)
(***************************************************************************)
MaxSessionPast == 3
MaxSessionUid == 2

\* saveToHistory() and then one note action, in one handler.
SavedEdit(edit, name, trackId) ==
    /\ Len(past) < MaxSessionPast
    /\ PushStateSet(tracks)
    /\ edit
    /\ Logged(name, [trackId |-> trackId, before |-> tracks], <<>>)
    /\ UNCHANGED outsideEdit

SessionAddNote(trackId) ==
    /\ nextUid <= MaxSessionUid
    /\ SavedEdit(AddNoteSet(trackId, NewNoteInput), "savedAddNote", trackId)

SessionUpdateNote(trackId, noteId, updates) ==
    SavedEdit(UpdateNoteSet(trackId, noteId, updates), "savedUpdateNote", trackId)

SessionRemoveNote(trackId, noteId) ==
    SavedEdit(RemoveNoteSet(trackId, noteId), "savedRemoveNote", trackId)

SessionEdits == {"savedAddNote", "savedUpdateNote", "savedRemoveNote"}

InitSession == InitWithTracks(EditTrackInputs)

NextSession ==
    \/ \E trackId \in TrackIdsOf(tracks) : SessionAddNote(trackId)
    \/ \E trackId \in TrackIdsOf(tracks) : \E noteId \in NoteIdsOf(tracks, trackId) :
          \E updates \in {MoveInput, ResizeInput} :
             SessionUpdateNote(trackId, noteId, updates)
    \/ \E trackId \in TrackIdsOf(tracks) : \E noteId \in NoteIdsOf(tracks, trackId) :
          SessionRemoveNote(trackId, noteId)
    \/ ProjectUndo
    \/ ProjectRedo

SpecSession == InitSession /\ [][NextSession]_vars

\* The states of the session in order: the ones undo leads back to, the
\* current one, the ones redo leads on to.
SessionStates == past \o <<Snapshot(tracks)>> \o future

\* C37: with saveToHistory before each edit the session's states N0, ..., Nk
\* are kept in order. An edit made at the end of the list appends the new
\* notes to it; undo() and redo() leave the list as it is and move the
\* current state one place back and one place on, and the tracks then hold
\* the notes of that place: k undos give Nk-1, ..., N0 and k redos after
\* them give N1, ..., Nk.
C37_UndoRedoWalkTheEdits ==
    [][ /\ (lastOp' \in SessionEdits /\ future = <<>> =>
               SessionStates' = SessionStates \o <<Snapshot(tracks')>>)
        /\ (lastOp' = "projectUndo" /\ actuals'.acted =>
               /\ SessionStates' = SessionStates
               /\ Len(past') = Len(past) - 1
               /\ NotesOf(tracks') =
                     [i \in DOMAIN tracks |-> SessionStates[Len(past)][tracks[i].id]])
        /\ (lastOp' = "projectRedo" /\ actuals'.acted =>
               /\ SessionStates' = SessionStates
               /\ Len(past') = Len(past) + 1
               /\ NotesOf(tracks') =
                     [i \in DOMAIN tracks |-> SessionStates[Len(past) + 2][tracks[i].id]])
      ]_vars

\* Three edits, undos, and consecutive redos that lead on to the last of the
\* states again, the states all different.
C37_Witness ==
    /\ lastOp = "projectRedo"
    /\ actuals.acted
    /\ actuals.after = "projectRedo"
    /\ Len(past) = MaxSessionPast
    /\ future = <<>>
    /\ \A i, j \in DOMAIN SessionStates : i # j => SessionStates[i] # SessionStates[j]

(***************************************************************************)
(* stop() against the position tick of the running schedule.               *)
(***************************************************************************)
\* The store as stop() leaves it.
StoppedAtZero == ~isPlaying /\ ~isPaused /\ currentBeat = 0

\* C40: stop() leaves the store stopped at beat 0, and from there currentBeat
\* stays 0 in every step that is not a play() or a seek(): an onBeatUpdate
\* callback queued by a tick before the stop does not set it to another beat.
C40_StoppedBeatStaysZero ==
    [][ /\ (lastOp' = "stop" => StoppedAtZero')
        /\ (StoppedAtZero /\ lastOp' \notin {"play", "seek"} => currentBeat' = 0)
      ]_vars

=============================================================================
